---------------------------- MODULE Spec2Model ----------------------------
(***************************************************************************)
(* ContextAware browser extension: the StorageManager (utils/storage.ts),  *)
(* the background service worker ("Coordinator", background.ts), the Popup *)
(* (Popup.tsx), the Sidebar (Sidebar.tsx) and the content script ("Page    *)
(* Agent", content.ts).                                                    *)
(*                                                                         *)
(* Every async function is cut at its awaits: one action runs the code     *)
(* from one await to the next, as the JavaScript event loop does.  A       *)
(* chrome.storage call takes effect in the step in which it resolves, and  *)
(* may reject instead (a storage failure).  Date.now() reads the wall      *)
(* clock, which is not monotonic: each read draws a value from Times.      *)
(***************************************************************************)
EXTENDS Integers, Sequences, FiniteSets, TLC

(***************************************************************************)
(* Program constants and bounds                                            *)
(***************************************************************************)
\* storage.ts:95,97  "Keep only last 100 summaries"
MaxSummaries == 100
\* storage.ts:163,164  "Keep only last 10 summaries per domain"
MaxContextSummaries == 10
\* how far the wall clock may run ahead of the last prefilled timestamp
MaxTick == 1
\* how many StorageManager calls / Coordinator requests one run starts
MaxCalls == 2

Slots == {1, 2}

Modes == {"local", "cloud"}

\* the settings fields of interface Settings (storage.ts:10-15)
Fields == {"theme", "defaultAIMode", "enableSpeech", "autoSummarize"}

\* A field that an object does not carry
Unset == "unset"

\* {} : an object with no settings field
EmptyObj == [f \in Fields |-> Unset]

\* background.ts onInstalled: the default settings
DefaultSettings ==
    [theme |-> "light", defaultAIMode |-> "local",
     enableSpeech |-> "false", autoSummarize |-> "false"]

\* an object that is b alone, whatever a holds
SpreadOver(a, b) == b

\* { ...a, ...b } : object spread, b's fields override a's (storage.ts:57)
Spread(a, b) == [f \in Fields |-> IF b[f] # Unset THEN b[f] ELSE a[f]]

(***************************************************************************)
(* Summary entries and the summaries map (a JS object: keys in insertion   *)
(* order, modelled as a sequence of entries with distinct urls)            *)
(***************************************************************************)
Entry(url, summary, mode, ts) ==
    [url |-> url, summary |-> summary, mode |-> mode, timestamp |-> ts]

\* null, as returned by getSummary for a missing url
Null == [url |-> -1, summary |-> "null", mode |-> "null", timestamp |-> -1]

HasKey(map, url) == \E i \in 1..Len(map) : map[i].url = url

KeyIndex(map, url) == CHOOSE i \in 1..Len(map) : map[i].url = url

\* summaries[url] || null
Lookup(map, url) == IF HasKey(map, url) THEN map[KeyIndex(map, url)] ELSE Null

\* an assignment that overwrites only the summary of an existing entry
AssignSummary(map, e) ==
    IF HasKey(map, e.url)
    THEN [map EXCEPT ![KeyIndex(map, e.url)].summary = e.summary]
    ELSE Append(map, e)

\* summaries[url] = e : an existing key keeps its place, a new key goes last
Assign(map, e) ==
    IF HasKey(map, e.url)
    THEN [map EXCEPT ![KeyIndex(map, e.url)] = e]
    ELSE Append(map, e)

\* entries.sort((a, b) => b[1].timestamp - a[1].timestamp): descending by
\* timestamp.  Array.prototype.sort is stable, so entries of equal timestamp
\* keep their order; a stable merge sort computes that same result.  The
\* merge moves a whole run at a time: of two descending lists, a before b,
\* the prefix of a not below b's head goes first, else the prefix of b
\* strictly above a's head.
RECURSIVE MergeDesc(_, _)
MergeDesc(a, b) ==
    IF Len(a) = 0 THEN b
    ELSE IF Len(b) = 0 THEN a
    ELSE LET ka == Cardinality({i \in 1..Len(a) :
                                    a[i].timestamp >= b[1].timestamp})
             kb == Cardinality({j \in 1..Len(b) :
                                    b[j].timestamp > a[1].timestamp})
         IN  IF ka > 0
             THEN SubSeq(a, 1, ka) \o MergeDesc(SubSeq(a, ka + 1, Len(a)), b)
             ELSE SubSeq(b, 1, kb) \o MergeDesc(a, SubSeq(b, kb + 1, Len(b)))

\* the same merge for the comparator with its operands swapped,
\* (a, b) => a[1].timestamp - b[1].timestamp: ascending
RECURSIVE MergeAsc(_, _)
MergeAsc(a, b) ==
    IF Len(a) = 0 THEN b
    ELSE IF Len(b) = 0 THEN a
    ELSE LET ka == Cardinality({i \in 1..Len(a) :
                                    a[i].timestamp <= b[1].timestamp})
             kb == Cardinality({j \in 1..Len(b) :
                                    b[j].timestamp < a[1].timestamp})
         IN  IF ka > 0
             THEN SubSeq(a, 1, ka) \o MergeAsc(SubSeq(a, ka + 1, Len(a)), b)
             ELSE SubSeq(b, 1, kb) \o MergeAsc(a, SubSeq(b, kb + 1, Len(b)))

RECURSIVE SortAsc(_)
SortAsc(entries) ==
    IF Len(entries) <= 1 THEN entries
    ELSE LET m == Len(entries) \div 2
         IN  MergeAsc(SortAsc(SubSeq(entries, 1, m)),
                      SortAsc(SubSeq(entries, m + 1, Len(entries))))

RECURSIVE SortDesc(_)
SortDesc(entries) ==
    IF Len(entries) <= 1 THEN entries
    ELSE LET m == Len(entries) \div 2
         IN  MergeDesc(SortDesc(SubSeq(entries, 1, m)),
                       SortDesc(SubSeq(entries, m + 1, Len(entries))))

\* entries.slice(0, n)
SliceFirst(entries, n) ==
    IF Len(entries) <= n THEN entries ELSE SubSeq(entries, 1, n)

\* storage.ts:93-101: the value saveSummary hands to chrome.storage.local.set
TrimmedMut(map) ==
    IF Len(map) > MaxSummaries + 1
    THEN SliceFirst(SortDesc(map), MaxSummaries)
    ELSE map

Trimmed(map) ==
    IF Len(map) > MaxSummaries
    THEN SliceFirst(SortDesc(map), MaxSummaries)
    ELSE map


(***************************************************************************)
(* The site-context map (contextaware_context): a JS object keyed by       *)
(* domain, modelled as a sequence of BrowsingContext records               *)
(***************************************************************************)
HasDomain(ctxs, domain) == \E i \in 1..Len(ctxs) : ctxs[i].domain = domain

DomainIndex(ctxs, domain) == CHOOSE i \in 1..Len(ctxs) : ctxs[i].domain = domain

NewContextVisited(domain, t) ==
    [domain |-> domain, visits |-> 1, lastVisit |-> t, summaries |-> <<>>]

\* storage.ts:148-155: a context created on the first call for a domain
NewContext(domain, t) ==
    [domain |-> domain, visits |-> 0, lastVisit |-> t, summaries |-> <<>>]

SliceHead(list, n) ==
    IF Len(list) <= n THEN list ELSE SubSeq(list, 1, n)

\* summaries.slice(-10)
SliceLast(list, n) ==
    IF Len(list) <= n THEN list ELSE SubSeq(list, Len(list) - n + 1, Len(list))

\* storage.ts:148-166: the contexts object updateContext hands to set.
\* hasSummary is the truthiness of the optional summary argument.
UpdatedContexts(ctxs, domain, hasSummary, summary, t) ==
    LET base == IF HasDomain(ctxs, domain) THEN ctxs
                ELSE Append(ctxs, NewContext(domain, t))
        i == DomainIndex(base, domain)
        pushed == IF hasSummary THEN Append(base[i].summaries, summary)
                  ELSE base[i].summaries
        kept == IF Len(pushed) > MaxContextSummaries
                THEN SliceLast(pushed, MaxContextSummaries)
                ELSE pushed
    IN  [base EXCEPT ![i] = [domain |-> domain,
                             visits |-> base[i].visits + 1,
                             lastVisit |-> t,
                             summaries |-> kept]]

Unsorted(ctxs) == ctxs

\* Object.values(contexts).sort((a, b) => b.lastVisit - a.lastVisit)
SortByLastVisit(ctxs) ==
    LET n == Len(ctxs)
        rank == [i \in 1..n |->
                    Cardinality({j \in 1..n :
                        \/ ctxs[j].lastVisit > ctxs[i].lastVisit
                        \/ /\ ctxs[j].lastVisit = ctxs[i].lastVisit
                           /\ j < i}) + 1]
    IN  [k \in 1..n |-> ctxs[CHOOSE i \in 1..n : rank[i] = k]]

\* storage.ts:129-133: domain 0 stands for an undefined (falsy) domain
ContextResult(ctxs, domain) ==
    IF domain # 0
    THEN IF HasDomain(ctxs, domain) THEN <<ctxs[DomainIndex(ctxs, domain)]>>
         ELSE <<>>
    ELSE SortByLastVisit(ctxs)

(***************************************************************************)
(* State                                                                   *)
(***************************************************************************)
VARIABLES
    summaries,   \* chrome.storage.local[contextaware_summaries]
    contexts,    \* chrome.storage.local[contextaware_context]
    settings,    \* chrome.storage.sync[contextaware_settings]: [present, val]
    slot,        \* the StorageManager calls in progress, one per slot
    started,     \* how many calls this run has started
    done,        \* the call that returned last
    hist,        \* history of the writes to the summaries partition
    inbox,       \* messages sent to the Coordinator, not yet received
    replies,     \* sendResponse calls of the Coordinator, not yet delivered
    reqlog,      \* per request: what was sent and what was answered
    popup,       \* the Popup component's state
    sidebar,     \* the Sidebar component's state
    agent,       \* the content script's module state
    toAgent,     \* window messages posted to the page, not yet handled
    toPanel,     \* window messages posted to the sidebar iframe, not yet handled
    engine,      \* the AIService call in progress and the sessions it holds
    life         \* the extension's lifecycle: installed, activations seen

vars == <<summaries, contexts, settings, slot, started, done, hist,
          inbox, replies, reqlog, popup, sidebar, agent, toAgent, toPanel,
          engine, life>>

\* the state of the surfaces; AIService runs in the surface that calls it.
\* No StorageManager operation and no message handler touches the lifecycle
uiVars == <<popup, sidebar, agent, toAgent, toPanel, engine, life>>

storeVars == <<summaries, contexts, settings>>
msgVars == <<inbox, replies, reqlog>>

\* Values Date.now() may return: the wall clock is not monotonic, so a
\* later call may read an earlier time (0) or the same millisecond
Times == {0} \cup {MaxSummaries + k : k \in 1..MaxTick}

NoSettings == [present |-> FALSE, val |-> EmptyObj]

\* a set that stores nothing under the settings key
StoredAbsent(obj) == [present |-> FALSE, val |-> obj]

\* chrome.storage.sync.set({ [SETTINGS]: obj }) (storage.ts:58)
Stored(obj) == [present |-> TRUE, val |-> obj]

IdleSlot ==
    [op |-> "idle", pc |-> "idle",
     url |-> 0, summary |-> "", mode |-> "local", domain |-> 0,
     hasSummary |-> FALSE, partial |-> EmptyObj,
     pendS |-> <<>>, pendC |-> <<>>, pendP |-> EmptyObj, seenP |-> EmptyObj,
     ts |-> 0, evicted |-> {}, stale |-> FALSE,
     failed |-> FALSE, wrote |-> FALSE, req |-> 0, by |-> "caller"]

NoneDone ==
    [op |-> "none", outcome |-> "none", failed |-> FALSE, wrote |-> FALSE,
     url |-> 0, summary |-> "", mode |-> "local", domain |-> 0,
     resS |-> Null, resL |-> <<>>, resP |-> NoSettings, by |-> "none",
     partial |-> EmptyObj]

\* the lowest free slot takes the next call
FreeSlot(s) ==
    /\ slot[s].op = "idle"
    /\ \A r \in Slots : r < s => slot[r].op # "idle"

Returned(s, extra) ==
    [NoneDone EXCEPT !.op = slot[s].op, !.outcome = "returned",
                     !.failed = slot[s].failed \/ extra.failed,
                     !.wrote = slot[s].wrote \/ extra.wrote,
                     !.url = slot[s].url, !.summary = slot[s].summary,
                     !.mode = slot[s].mode, !.domain = slot[s].domain,
                     !.by = slot[s].by, !.partial = slot[s].partial]

\* what the last step of a call adds to its record: a storage failure, or
\* a write that changed the persisted state
Fail == [failed |-> TRUE, wrote |-> FALSE]
WroteIf(changed) == [failed |-> FALSE, wrote |-> changed]
Plain == [failed |-> FALSE, wrote |-> FALSE]

Urls(map) == {map[i].url : i \in 1..Len(map)}

Range(list) == {list[i] : i \in 1..Len(list)}


(***************************************************************************)
(* Initial state of the surfaces                                           *)
(***************************************************************************)
\* the url of the page in the active tab: the page the content script runs
\* in and the tab the Popup queries
PageUrl == 1

\* Popup.tsx useState initial values (part_000:35-43); pc is the position
\* inside handleSummarize, req the request whose reply it awaits, query
\* whether loadCurrentPageSummary awaits chrome.tabs.query
PopupClosed ==
    [isLoading |-> FALSE, currentSummary |-> "", aiMode |-> "local",
     pc |-> "idle", mode |-> "local", req |-> 0, query |-> FALSE]

\* Sidebar.tsx useState initial values (ai.ts:250-253); mounted is set
\* once the iframe has loaded and the effect (255-259) has registered
\* handleMessage; sent counts the SUMMARIZE messages it posted and got the
\* responses to them it handled (history)
SidebarInit ==
    [hasContext |-> FALSE, url |-> 0, selectedText |-> "",
     summary |-> "", isLoading |-> FALSE, aiMode |-> "local",
     mounted |-> FALSE, sent |-> 0, got |-> 0,
     clicks |-> 0, lastText |-> "", lastSel |-> ""]

\* content.ts module state (README.md:300-302) and the document it runs
\* in: pageText is what the Popup's injected script reads from the page
\* (part_000:88-96); req holds the requests whose reply callback is pending
\* window.getSelection()?.toString(): body characters with pad white
\* space around them; no selection gives ''
NoSelection == [body |-> 0, pad |-> 0]

\* window.getSelection()?.toString() || '' (README.md:383): the selected
\* string as it is, white space included; '' when nothing is selected
SelectionText(sel) ==
    IF sel.body = 0
    THEN IF sel.pad = 0 THEN "" ELSE "  "
    ELSE IF sel.body = 50
         THEN IF sel.pad = 0 THEN "fifty characters" ELSE " fifty characters "
         ELSE IF sel.pad = 0 THEN "fifty-one characters"
              ELSE " fifty-one characters "

\* After the first init (308-319) the document holds the one button this
\* instance created: fabs and panels count the elements with the ids
\* 'contextaware-fab' and 'contextaware-sidebar', shown is the panel's
\* transform, hasSelection the button's class, inits the script instances
\* that ran init in this document; toggles counts the toggleSidebar calls
\* of this instance, sel is the selection at the last mouseup, relayed
\* the SUMMARIZE messages handleSummarize turned into requests and posted
\* the replies its callback posted to the panel (history)
AgentInit ==
    [sidebar |-> FALSE, isSidebarOpen |-> FALSE, fabActive |-> FALSE,
     req |-> {}, pageText |-> "some",
     fabs |-> 1, panels |-> 0, shown |-> FALSE, hasSelection |-> FALSE,
     inits |-> 1, toggles |-> 0, sel |-> NoSelection,
     relayed |-> <<>>, posted |-> <<>>, msgs |-> 0, acks |-> 0,
     msgAt |-> 0]

\* the extension's lifecycle as chrome.runtime reports it to the service
\* worker: installed is set once onInstalled fired with reason 'install',
\* last is the latest activation; defaults counts the setSettings calls
\* the activation listeners started (history, not program state)
NotInstalled == [installed |-> FALSE, last |-> "none", defaults |-> 0]

\* an installed extension whose service worker is running
Running == [installed |-> TRUE, last |-> "install", defaults |-> 1]

(***************************************************************************)
(* History of the summaries partition (not program state): which urls      *)
(* were written, whether every write so far was sequential, to a new url   *)
(* and with a larger timestamp than the one before, what the last write    *)
(* evicted and what it saved.                                              *)
(***************************************************************************)
\* the domains updateContext and getContext are called with
Domains == {1, 2}

\* history of the site-context partition: per domain the summaries supplied
\* by the updateContext calls that wrote and the number of those calls,
\* since the partition was last empty; sequential is FALSE once a write to
\* the partition landed while another call on it was in flight
CtxHistOf(n) ==
    [supplied |-> [d \in Domains |->
                     IF d = 1 THEN [i \in 1..n |-> [url |-> i, summary |-> "P",
                                                    mode |-> "local",
                                                    timestamp |-> i]]
                     ELSE <<>>],
     calls |-> [d \in Domains |-> IF d = 1 THEN n ELSE 0],
     sequential |-> TRUE]

\* another call that reads or writes the site-context partition is in flight
CtxBusy(s) ==
    \E r \in Slots \ {s} :
        \/ slot[r].op = "updateContext"
        \/ slot[r].op = "clearAll" /\ slot[r].pc = "clearLocal"

CtxAfterUpdate(s) ==
    [supplied |-> [hist.ctx.supplied EXCEPT ![slot[s].domain] =
                      IF slot[s].hasSummary
                      THEN Append(@, [url |-> slot[s].url,
                                      summary |-> slot[s].summary,
                                      mode |-> slot[s].mode,
                                      timestamp |-> slot[s].ts])
                      ELSE @],
     calls |-> [hist.ctx.calls EXCEPT ![slot[s].domain] = @ + 1],
     sequential |-> hist.ctx.sequential /\ ~CtxBusy(s)]

CtxAfterClear(s) ==
    [CtxHistOf(0) EXCEPT !.sequential = hist.ctx.sequential /\ ~CtxBusy(s)]

NoSave ==
    [valid |-> FALSE, url |-> 0, summary |-> "", mode |-> "local", ts |-> 0]

HistOf(n) ==
    [count |-> n, strict |-> TRUE, lastTs |-> n, urls |-> 1..n,
     initial |-> 1..n,
     first |-> IF n = 0 THEN 0 ELSE 1, evicted |-> {}, overlapped |-> FALSE,
     lastSave |-> NoSave, prevSave |-> NoSave, ctx |-> CtxHistOf(0)]

HistAfterSave(s) ==
    [count |-> hist.count + 1,
     strict |-> /\ hist.strict
                /\ ~slot[s].stale
                /\ slot[s].url \notin hist.urls
                /\ slot[s].ts > hist.lastTs,
     lastTs |-> slot[s].ts,
     urls |-> hist.urls \cup {slot[s].url},
     initial |-> hist.initial,
     first |-> IF hist.count = 0 THEN slot[s].url ELSE hist.first,
     evicted |-> slot[s].evicted,
     overlapped |-> hist.overlapped \/ slot[s].stale,
     lastSave |-> [valid |-> TRUE, url |-> slot[s].url,
                   summary |-> slot[s].summary, mode |-> slot[s].mode,
                   ts |-> slot[s].ts],
     prevSave |-> hist.lastSave,
     ctx |-> hist.ctx]

HistAfterClear ==
    [hist EXCEPT !.strict = FALSE, !.evicted = {}, !.lastSave = NoSave,
                 !.prevSave = NoSave]

\* a write to the summaries partition lands: the calls that have read the
\* partition and not yet written it back now hold a stale copy
MarkStale(s) ==
    [r \in Slots |->
        IF r # s /\ slot[r].op = "saveSummary" /\ slot[r].pc = "set"
        THEN [slot[r] EXCEPT !.stale = TRUE]
        ELSE slot[r]]

(***************************************************************************)
(* Return of a StorageManager call to its caller.  A call made by a        *)
(* Coordinator handler (req # 0) continues in that handler, which answers  *)
(* the request with sendResponse.                                          *)
(***************************************************************************)
\* a response object: { success, summary?, mode?, context?, error? }
ReplyOf(id, success, summary, mode, ctx) ==
    [id |-> id, success |-> success, summary |-> summary, mode |-> mode,
     context |-> ctx]

\* the request was sent with a reply callback: the summarize requests of
\* the Popup (part_000:111) and of the content script (README.md:471); the
\* Popup's SAVE_SUMMARY (part_000:116) passes none
HasCallback(r) ==
    /\ r.from \in {"popup", "agent"}
    /\ r.type \in {"SUMMARIZE_LOCAL", "SUMMARIZE_CLOUD"}

\* the runtime hands a reply to the sender's callback, or discards it
Delivered(reply) ==
    IF HasCallback(reqlog[reply.id]) THEN Append(replies, reply) ELSE replies

\* sendResponse(reply) for request id
Answered(id, reply, failed, wrote) ==
    [reqlog EXCEPT ![id].answers = Append(@, reply),
                   ![id].failed = @ \/ failed,
                   ![id].wrote = @ \/ wrote,
                   ![id].storedAtReply = Lookup(summaries', reqlog[id].url)]

\* a response that reports the storage failure of the call
StoredReplyStrict(id, result) ==
    ReplyOf(id, ~result.failed, "", "none", result.resL)

\* part_000:419-423, 441-444: the StorageManager call resolved (it catches
\* its storage errors itself, storage.ts:102-104, 134-137); the handler
\* responds success with what the call returned
StoredReply(id, result) == ReplyOf(id, TRUE, "", "none", result.resL)

AfterCall(s, slots, result) ==
    /\ done' = IF slot[s].req = 0 THEN result ELSE done
    /\ slot' = [slots EXCEPT ![s] = IdleSlot]
    /\ IF slot[s].req = 0
       THEN UNCHANGED <<replies, reqlog>>
       ELSE LET reply == StoredReply(slot[s].req, result)
            IN  /\ replies' = Delivered(reply)
                /\ reqlog' = Answered(slot[s].req, reply, result.failed,
                                      result.wrote)
    /\ UNCHANGED <<started, inbox, uiVars>>

\* a direct call of a StorageManager operation
Begin(s, call) ==
    /\ FreeSlot(s)
    /\ started < MaxCalls
    /\ slot' = [slot EXCEPT ![s] = call]
    /\ started' = started + 1
    /\ UNCHANGED <<storeVars, done, hist, msgVars, uiVars>>

(***************************************************************************)
(* StorageManager.saveSummary (storage.ts:81-105)                          *)
(***************************************************************************)
SaveCall(url, summary, mode, req) ==
    [IdleSlot EXCEPT !.op = "saveSummary", !.pc = "get", !.url = url,
                     !.summary = summary, !.mode = mode, !.req = req]

\* lines 83-97: the get resolved; build the entry, trim, issue the set
SaveSummaryRead(s) ==
    /\ slot[s].op = "saveSummary" /\ slot[s].pc = "get"
    /\ \E t \in Times :
        LET e == Entry(slot[s].url, slot[s].summary, slot[s].mode, t)
            assigned == Assign(summaries, e)
            value == Trimmed(assigned)
        IN  slot' = [slot EXCEPT ![s].pc = "set", ![s].pendS = value,
                                 ![s].ts = t,
                                 ![s].evicted = Range(assigned) \ Range(value)]
    /\ UNCHANGED <<storeVars, started, done, hist, msgVars, uiVars>>

\* lines 83, 102-104: the get rejected; caught, nothing written
SaveSummaryReadFail(s) ==
    /\ slot[s].op = "saveSummary" /\ slot[s].pc = "get"
    /\ UNCHANGED <<storeVars, hist>>
    /\ AfterCall(s, slot, Returned(s, Fail))

\* lines 98/100: the set resolved
SaveSummaryWrite(s) ==
    /\ slot[s].op = "saveSummary" /\ slot[s].pc = "set"
    /\ summaries' = slot[s].pendS
    /\ hist' = HistAfterSave(s)
    /\ UNCHANGED <<contexts, settings>>
    /\ AfterCall(s, MarkStale(s),
                 Returned(s, WroteIf(slot[s].pendS # summaries)))

\* lines 98/100, 102-104: the set rejected; caught
SaveSummaryWriteFail(s) ==
    /\ slot[s].op = "saveSummary" /\ slot[s].pc = "set"
    /\ UNCHANGED <<storeVars, hist>>
    /\ AfterCall(s, slot, Returned(s, Fail))

(***************************************************************************)
(* StorageManager.getSummary (storage.ts:67-76)                            *)
(***************************************************************************)
GetSummaryCall(url) ==
    [IdleSlot EXCEPT !.op = "getSummary", !.pc = "get", !.url = url]

GetSummaryRead(s) ==
    /\ slot[s].op = "getSummary" /\ slot[s].pc = "get"
    /\ UNCHANGED <<storeVars, hist>>
    /\ AfterCall(s, slot, [Returned(s, Plain) EXCEPT
                              !.resS = Lookup(summaries, slot[s].url)])

GetSummaryReadFail(s) ==
    /\ slot[s].op = "getSummary" /\ slot[s].pc = "get"
    /\ UNCHANGED <<storeVars, hist>>
    /\ AfterCall(s, slot, Returned(s, Fail))


(***************************************************************************)
(* StorageManager.getAllSummaries (storage.ts:110-119)                     *)
(***************************************************************************)
GetAllCall == [IdleSlot EXCEPT !.op = "getAllSummaries", !.pc = "get"]

GetAllSummariesRead(s) ==
    /\ slot[s].op = "getAllSummaries" /\ slot[s].pc = "get"
    /\ UNCHANGED <<storeVars, hist>>
    /\ AfterCall(s, slot, [Returned(s, Plain) EXCEPT
                              !.resL = SortDesc(summaries)])

GetAllSummariesReadFail(s) ==
    /\ slot[s].op = "getAllSummaries" /\ slot[s].pc = "get"
    /\ UNCHANGED <<storeVars, hist>>
    /\ AfterCall(s, slot, Returned(s, Fail))

(***************************************************************************)
(* StorageManager.getSettings (storage.ts:41-49)                           *)
(***************************************************************************)
GetSettingsCall == [IdleSlot EXCEPT !.op = "getSettings", !.pc = "get"]

\* result[SETTINGS] || null
GetSettingsRead(s) ==
    /\ slot[s].op = "getSettings" /\ slot[s].pc = "get"
    /\ UNCHANGED <<storeVars, hist>>
    /\ AfterCall(s, slot, [Returned(s, Plain) EXCEPT !.resP = settings])

GetSettingsReadFail(s) ==
    /\ slot[s].op = "getSettings" /\ slot[s].pc = "get"
    /\ UNCHANGED <<storeVars, hist>>
    /\ AfterCall(s, slot, Returned(s, Fail))

(***************************************************************************)
(* StorageManager.setSettings (storage.ts:54-62)                           *)
(***************************************************************************)
SetSettingsCall(partial) ==
    [IdleSlot EXCEPT !.op = "setSettings", !.pc = "get", !.partial = partial]

\* lines 56-58: getSettings returned the stored object or null; spread
\* it under the partial and issue the set.  Spreading null adds nothing.
SetSettingsRead(s) ==
    /\ slot[s].op = "setSettings" /\ slot[s].pc = "get"
    /\ slot' = [slot EXCEPT ![s].pc = "set", ![s].seenP = settings.val,
                            ![s].pendP = Spread(settings.val, slot[s].partial)]
    /\ UNCHANGED <<storeVars, started, done, hist, msgVars, uiVars>>

\* lines 45-47, 56-58: the get rejected inside getSettings, which catches
\* the error and returns null; setSettings goes on with currentSettings
\* null and writes the partial alone
SetSettingsReadFail(s) ==
    /\ slot[s].op = "setSettings" /\ slot[s].pc = "get"
    /\ slot' = [slot EXCEPT ![s].pc = "set", ![s].failed = TRUE,
                            ![s].pendP = Spread(EmptyObj, slot[s].partial)]
    /\ UNCHANGED <<storeVars, started, done, hist, msgVars, uiVars>>

SetSettingsWrite(s) ==
    /\ slot[s].op = "setSettings" /\ slot[s].pc = "set"
    /\ settings' = Stored(slot[s].pendP)
    /\ UNCHANGED <<summaries, contexts, hist>>
    /\ AfterCall(s, slot, Returned(s, WroteIf(Stored(slot[s].pendP) # settings)))

SetSettingsWriteFail(s) ==
    /\ slot[s].op = "setSettings" /\ slot[s].pc = "set"
    /\ UNCHANGED <<storeVars, hist>>
    /\ AfterCall(s, slot, Returned(s, Fail))

(***************************************************************************)
(* StorageManager.getContext (storage.ts:124-138)                          *)
(***************************************************************************)
GetContextCall(domain, req) ==
    [IdleSlot EXCEPT !.op = "getContext", !.pc = "get", !.domain = domain,
                     !.req = req]

GetContextRead(s) ==
    /\ slot[s].op = "getContext" /\ slot[s].pc = "get"
    /\ UNCHANGED <<storeVars, hist>>
    /\ AfterCall(s, slot, [Returned(s, Plain) EXCEPT
                              !.resL = ContextResult(contexts, slot[s].domain)])

GetContextReadFail(s) ==
    /\ slot[s].op = "getContext" /\ slot[s].pc = "get"
    /\ UNCHANGED <<storeVars, hist>>
    /\ AfterCall(s, slot, Returned(s, Fail))

(***************************************************************************)
(* StorageManager.updateContext (storage.ts:143-172)                       *)
(***************************************************************************)
UpdateContextCall(domain, hasSummary, url, summary, mode) ==
    [IdleSlot EXCEPT !.op = "updateContext", !.pc = "get", !.domain = domain,
                     !.hasSummary = hasSummary, !.url = url,
                     !.summary = summary, !.mode = mode]

\* lines 145-168: the get resolved; update the domain's context, issue the set
UpdateContextRead(s) ==
    /\ slot[s].op = "updateContext" /\ slot[s].pc = "get"
    /\ \E t \in Times :
        slot' = [slot EXCEPT
                    ![s].pc = "set", ![s].ts = t,
                    ![s].pendC =
                        UpdatedContexts(contexts, slot[s].domain,
                            slot[s].hasSummary,
                            Entry(slot[s].url, slot[s].summary, slot[s].mode, t),
                            t)]
    /\ UNCHANGED <<storeVars, started, done, hist, msgVars, uiVars>>

UpdateContextReadFail(s) ==
    /\ slot[s].op = "updateContext" /\ slot[s].pc = "get"
    /\ UNCHANGED <<storeVars, hist>>
    /\ AfterCall(s, slot, Returned(s, Fail))

UpdateContextWrite(s) ==
    /\ slot[s].op = "updateContext" /\ slot[s].pc = "set"
    /\ contexts' = slot[s].pendC
    /\ hist' = [hist EXCEPT !.ctx = CtxAfterUpdate(s)]
    /\ UNCHANGED <<summaries, settings>>
    /\ AfterCall(s, slot, Returned(s, WroteIf(slot[s].pendC # contexts)))

UpdateContextWriteFail(s) ==
    /\ slot[s].op = "updateContext" /\ slot[s].pc = "set"
    /\ UNCHANGED <<storeVars, hist>>
    /\ AfterCall(s, slot, Returned(s, Fail))

(***************************************************************************)
(* StorageManager.clearAll (storage.ts:177-184)                            *)
(***************************************************************************)
ClearAllCall == [IdleSlot EXCEPT !.op = "clearAll", !.pc = "clearLocal"]

\* line 179: chrome.storage.local.clear() resolved
ClearLocal(s) ==
    /\ slot[s].op = "clearAll" /\ slot[s].pc = "clearLocal"
    /\ summaries' = <<>>
    /\ contexts' = <<>>
    /\ hist' = [HistAfterClear EXCEPT !.ctx = CtxAfterClear(s)]
    /\ slot' = [MarkStale(s) EXCEPT
                    ![s].pc = "clearSync",
                    ![s].wrote = summaries # <<>> \/ contexts # <<>>]
    /\ UNCHANGED <<settings, started, done, msgVars, uiVars>>

\* lines 179, 181-183: local.clear() rejected; sync.clear() is never called
ClearLocalFail(s) ==
    /\ slot[s].op = "clearAll" /\ slot[s].pc = "clearLocal"
    /\ UNCHANGED <<storeVars, hist>>
    /\ AfterCall(s, slot, Returned(s, Fail))

\* line 180: chrome.storage.sync.clear() resolved
ClearSync(s) ==
    /\ slot[s].op = "clearAll" /\ slot[s].pc = "clearSync"
    /\ settings' = NoSettings
    /\ UNCHANGED <<summaries, contexts, hist>>
    /\ AfterCall(s, slot, Returned(s, WroteIf(settings # NoSettings)))

\* lines 180-183: sync.clear() rejected after local.clear() took effect
ClearSyncFail(s) ==
    /\ slot[s].op = "clearAll" /\ slot[s].pc = "clearSync"
    /\ UNCHANGED <<storeVars, hist>>
    /\ AfterCall(s, slot, Returned(s, Fail))

(***************************************************************************)
(* Runtime messages: chrome.runtime.sendMessage to the Coordinator.        *)
(* A request is { type, data }; hasData is FALSE when data is missing,     *)
(* text is "missing" (undefined), "empty" ('') or "some"; url 0 and        *)
(* domain 0 stand for undefined.  cause names the summarize request a      *)
(* SAVE_SUMMARY was sent for.  answers, failed, wrote, fault and           *)
(* storedAtReply record what the Coordinator did with the request.         *)
(***************************************************************************)
Req(type, from, hasData, text, url, summary, mode, domain, cause) ==
    [type |-> type, from |-> from, hasData |-> hasData, text |-> text,
     url |-> url, summary |-> summary, mode |-> mode, domain |-> domain,
     cause |-> cause, answers |-> <<>>, failed |-> FALSE, wrote |-> FALSE,
     fault |-> FALSE, storedAtReply |-> Null]

NextId == Len(reqlog) + 1

IsSummarize(r) == r.type \in {"SUMMARIZE_LOCAL", "SUMMARIZE_CLOUD"}

RemoveAt(list, i) == SubSeq(list, 1, i - 1) \o SubSeq(list, i + 1, Len(list))

Senders == {"popup", "agent", "other"}

\* messages of one sender arrive in the order sent: the position in the
\* inbox of the earliest message of a sender, 0 if it has none
FirstFrom(from) ==
    LET mine == {i \in 1..Len(inbox) : reqlog[inbox[i]].from = from}
    IN  IF mine = {} THEN 0 ELSE CHOOSE i \in mine : \A j \in mine : i <= j

\* the earliest reply to one of the requests ids, 0 if there is none
FirstReply(ids) ==
    LET mine == {k \in 1..Len(replies) : replies[k].id \in ids}
    IN  IF mine = {} THEN 0 ELSE CHOOSE k \in mine : \A j \in mine : k <= j

(***************************************************************************)
(* The Coordinator: chrome.runtime.onMessage listener and its handlers     *)
(* (part_000:324-452)                                                      *)
(***************************************************************************)
\* the placeholder summaries (part_000:364, 397)
LocalPlaceholder == "[Local AI Summary]"
CloudPlaceholder == "[Cloud AI Summary]"

\* whether the handler's try block raises a TypeError before its first
\* await: data.text.length (356, 387), data.domain (419), data.url (441)
\* on a missing data, or .length of an undefined text
Throws(r) ==
    \/ ~r.hasData
    \/ IsSummarize(r) /\ r.text = "missing"

\* the cases of the listener's switch (329-342)
Cases == {"SUMMARIZE_LOCAL", "SUMMARIZE_CLOUD", "GET_CONTEXT", "SAVE_SUMMARY"}

InTrySummarizeOnly == {"SUMMARIZE_LOCAL", "SUMMARIZE_CLOUD"}

\* the handlers whose body is wrapped in try/catch (355, 386, 418, 440)
InTry == {"SUMMARIZE_LOCAL", "SUMMARIZE_CLOUD", "GET_CONTEXT", "SAVE_SUMMARY"}

\* the catch blocks: sendResponse({ success: false, error })
FailureReply(id) == ReplyOf(id, FALSE, "", "none", <<>>)

\* a success response that names the local engine whatever the request
SummarizeReplyLocal(id, r) == ReplyOf(id, TRUE, LocalPlaceholder, "local", <<>>)

\* lines 364-371, 397-404: the success response of a summarize handler.
\* The text is not inspected beyond its length being read.
SummarizeReply(id, r) ==
    IF r.type = "SUMMARIZE_LOCAL"
    THEN ReplyOf(id, TRUE, LocalPlaceholder, "local", <<>>)
    ELSE ReplyOf(id, TRUE, CloudPlaceholder, "cloud", <<>>)

\* sendResponse called at once, in the step that received the message
RespondNow(i, reply) ==
    /\ UNCHANGED <<storeVars, slot, started, done, hist, uiVars>>
    /\ inbox' = RemoveAt(inbox, i)
    /\ replies' = Delivered(reply)
    /\ reqlog' = Answered(inbox[i], reply, FALSE, FALSE)

\* the handler raised: caught when the handler has a try block, else the
\* fault leaves the handler and nothing is answered
Raise(i) ==
    IF reqlog[inbox[i]].type \in InTry
    THEN RespondNow(i, FailureReply(inbox[i]))
    ELSE /\ UNCHANGED <<storeVars, slot, started, done, hist, uiVars, replies>>
         /\ inbox' = RemoveAt(inbox, i)
         /\ reqlog' = [reqlog EXCEPT ![inbox[i]].fault = TRUE]

\* handleLocalSummarization / handleCloudSummarization: no await, so the
\* handler runs to its sendResponse in one step and touches no storage
CoordSummarize(from) ==
    LET i == FirstFrom(from) IN
    /\ i > 0
    /\ IsSummarize(reqlog[inbox[i]])
    /\ ~Throws(reqlog[inbox[i]])
    /\ RespondNow(i, SummarizeReply(inbox[i], reqlog[inbox[i]]))

\* any handler whose try block raises before its first await
CoordRaise(from) ==
    LET i == FirstFrom(from) IN
    /\ i > 0
    /\ reqlog[inbox[i]].type \in Cases
    /\ Throws(reqlog[inbox[i]])
    /\ Raise(i)

\* the handler starts a StorageManager call and awaits it; the call runs
\* in the service worker
CoordCall(i, s, call) ==
    /\ FreeSlot(s)
    /\ slot' = [slot EXCEPT ![s] = [call EXCEPT !.by = "background"]]
    /\ inbox' = RemoveAt(inbox, i)
    /\ UNCHANGED <<storeVars, started, done, hist, replies, reqlog, uiVars>>

\* handleGetContext (417-431)
CoordGetContext(from, s) ==
    LET i == FirstFrom(from) IN
    /\ i > 0
    /\ reqlog[inbox[i]].type = "GET_CONTEXT"
    /\ ~Throws(reqlog[inbox[i]])
    /\ CoordCall(i, s, GetContextCall(reqlog[inbox[i]].domain, inbox[i]))

\* handleSaveSummary (436-452)
CoordSaveSummary(from, s) ==
    LET i == FirstFrom(from) IN
    /\ i > 0
    /\ reqlog[inbox[i]].type = "SAVE_SUMMARY"
    /\ ~Throws(reqlog[inbox[i]])
    /\ CoordCall(i, s, SaveCall(reqlog[inbox[i]].url, reqlog[inbox[i]].summary,
                                reqlog[inbox[i]].mode, inbox[i]))

\* the default branch (344-346)
CoordUnknown(from) ==
    LET i == FirstFrom(from) IN
    /\ i > 0
    /\ reqlog[inbox[i]].type \notin Cases
    /\ RespondNow(i, FailureReply(inbox[i]))

\* chrome.runtime.sendMessage(request)
Send(r) ==
    /\ reqlog' = Append(reqlog, r)
    /\ inbox' = Append(inbox, NextId)

(***************************************************************************)
(* Popup.handleSummarize (part_000:78-136)                                 *)
(***************************************************************************)
\* lines 79-80: a click on an enabled button (disabled={isLoading})
PopupClick(mode) ==
    /\ life.installed
    /\ ~popup.isLoading
    /\ popup.pc = "idle"
    /\ started < MaxCalls
    /\ popup' = [popup EXCEPT !.isLoading = TRUE, !.aiMode = mode,
                              !.mode = mode, !.pc = "extract"]
    /\ started' = started + 1
    /\ UNCHANGED <<engine, life, storeVars, slot, done, hist, msgVars, sidebar, agent,
                   toAgent, toPanel>>

\* lines 83-98, 131-135: tabs.query or executeScript rejected, or returned
\* no result
PopupExtractFail ==
    /\ popup.pc = "extract"
    /\ popup' = [popup EXCEPT !.currentSummary = "Failed to summarize content",
                              !.isLoading = FALSE, !.pc = "idle"]
    /\ UNCHANGED <<engine, life, storeVars, slot, started, done, hist, msgVars, sidebar,
                   agent, toAgent, toPanel>>

\* lines 100-110: selectedText || text, which is '' on an empty page with
\* no selection; the request goes to the Coordinator
PopupSend ==
    /\ popup.pc = "extract"
    /\ Send(Req(IF popup.mode = "local" THEN "SUMMARIZE_LOCAL"
                ELSE "SUMMARIZE_CLOUD",
                "popup", TRUE, agent.pageText, PageUrl, "", "none", 0, 0))
    /\ popup' = [popup EXCEPT !.pc = "await", !.req = NextId]
    /\ UNCHANGED <<engine, life, storeVars, slot, started, done, hist, replies, sidebar,
                   agent, toAgent, toPanel>>

\* lines 112: the reply callback sends SAVE_SUMMARY exactly on success
PopupSaves(reply) == reply.success

\* how a surface persists a summary: by a StorageManager call of its own
PersistsDirectly == "call"

\* lines 113-117: the Popup persists a summary by sending SAVE_SUMMARY to
\* the Coordinator
PopupPersists == "message"

\* lines 111-129: the reply callback
ForPopup == IF popup.pc = "await" THEN {popup.req} ELSE {}

PopupReply ==
    LET k == FirstReply(ForPopup) IN
    /\ k > 0
    /\ replies' = RemoveAt(replies, k)
    /\ IF PopupSaves(replies[k])
       THEN /\ IF PopupPersists = "message"
               THEN /\ Send(Req("SAVE_SUMMARY", "popup", TRUE, "missing",
                                PageUrl, replies[k].summary, popup.mode, 0,
                                popup.req))
                    /\ UNCHANGED slot
               ELSE /\ \E s \in Slots :
                         /\ FreeSlot(s)
                         /\ slot' = [slot EXCEPT ![s] =
                                [SaveCall(PageUrl, replies[k].summary,
                                          popup.mode, 0)
                                 EXCEPT !.by = "popup"]]
                    /\ UNCHANGED <<reqlog, inbox>>
            /\ popup' = [popup EXCEPT !.currentSummary = replies[k].summary,
                                      !.isLoading = FALSE, !.pc = "idle"]
       ELSE /\ UNCHANGED <<reqlog, inbox, slot>>
            /\ popup' = [popup EXCEPT !.currentSummary = "Error",
                                      !.isLoading = FALSE, !.pc = "idle"]
    /\ UNCHANGED <<engine, life, storeVars, started, done, hist, sidebar,
                   agent, toAgent, toPanel>>

(***************************************************************************)
(* The content script (README.md:300-493)                                  *)
(***************************************************************************)
\* a createFloatingButton that adds a button whatever the document holds
FabAbsentAlways(a) == TRUE

\* createFloatingButton (326-328): document.getElementById(
\* 'contextaware-fab') finds nothing
FabAbsent(a) == a.fabs = 0

\* a createSidebar that adds an iframe whatever the document holds
PanelAbsentAlways(a) == TRUE

\* createSidebar (414-416): document.getElementById('contextaware-sidebar')
\* finds nothing
PanelAbsent(a) == a.panels = 0

\* createSidebar (412-433) when this instance holds no iframe: with none
\* in the document it creates one and appends it
Created(a) ==
    IF ~a.sidebar /\ PanelAbsent(a)
    THEN [a EXCEPT !.sidebar = TRUE, !.panels = @ + 1]
    ELSE a

\* an openSidebar that sets the flag and leaves the panel where it is
OpenedHidden(a) == [a EXCEPT !.isSidebarOpen = TRUE, !.fabActive = TRUE]

\* openSidebar (368-377) with an iframe: show it, set the flag, mark the
\* button
OpenedShown(a) ==
    [a EXCEPT !.shown = TRUE, !.isSidebarOpen = TRUE, !.fabActive = TRUE]

\* openSidebar (363-377)
Opened(a) == OpenedShown(Created(a))

\* a closeSidebar that also forgets the reply callbacks still pending
ClosedCancels(a) ==
    [a EXCEPT !.shown = FALSE, !.isSidebarOpen = FALSE, !.fabActive = FALSE,
              !.req = {}]

\* closeSidebar (398-407); the instance holds an iframe whenever the panel
\* is open
Closed(a) ==
    IF a.sidebar
    THEN [a EXCEPT !.shown = FALSE, !.isSidebarOpen = FALSE,
                   !.fabActive = FALSE]
    ELSE a

\* openSidebar (363-393), reached from toggleSidebar when the panel is
\* closed: creates the iframe on first use, shows it and posts PAGE_CONTEXT
AgentOpen ==
    /\ life.installed
    /\ ~agent.isSidebarOpen
    /\ started < MaxCalls
    /\ started' = started + 1
    /\ agent' = [Opened(agent) EXCEPT !.toggles = @ + 1]
    /\ toPanel' = Append(toPanel, [type |-> "PAGE_CONTEXT", url |-> PageUrl,
                                   selectedText |-> SelectionText(agent.sel),
                                   reply |-> FailureReply(0)])
    /\ UNCHANGED <<engine, life, storeVars, slot, done, hist, msgVars, popup, sidebar, toAgent>>

\* closeSidebar (398-407), reached from toggleSidebar when the panel is open
AgentClose ==
    /\ agent.isSidebarOpen
    /\ started < MaxCalls
    /\ started' = started + 1
    /\ agent' = [Closed(agent) EXCEPT !.toggles = @ + 1]
    /\ UNCHANGED <<engine, life, storeVars, slot, done, hist, msgVars, popup, sidebar,
                   toAgent, toPanel>>

\* a script of the page posts a SUMMARIZE message to the window: the
\* listener installed by createSidebar (425-431) checks neither the source
\* nor the shape of the message
PagePost ==
    /\ agent.sidebar
    /\ started < MaxCalls
    /\ started' = started + 1
    /\ \E hasData \in BOOLEAN :
        toAgent' = Append(toAgent, [type |-> "SUMMARIZE", hasData |-> hasData,
                                    text |-> "missing", mode |-> "none",
                                    src |-> "page"])
    /\ UNCHANGED <<engine, life, storeVars, slot, done, hist, msgVars, popup, sidebar, agent,
                   toPanel>>

\* handleSummarize (460-486) on a SUMMARIZE message whose data is missing:
\* data.mode raises inside the try block, the catch logs it
AgentSummarizeFail ==
    /\ Len(toAgent) > 0
    /\ Head(toAgent).type = "SUMMARIZE"
    /\ ~Head(toAgent).hasData
    /\ toAgent' = Tail(toAgent)
    /\ UNCHANGED <<engine, life, storeVars, slot, started, done, hist, msgVars, popup,
                   sidebar, agent, toPanel>>

\* a relay that asks for the local engine whatever the mode
RelayTypeLocal(mode) == "SUMMARIZE_LOCAL"

\* line 462: data.mode === 'local' ? 'SUMMARIZE_LOCAL' : 'SUMMARIZE_CLOUD'
RelayType(mode) ==
    IF mode = "local" THEN "SUMMARIZE_LOCAL" ELSE "SUMMARIZE_CLOUD"

\* handleSummarize (460-470): relay the intent to the Coordinator
AgentSummarize ==
    /\ Len(toAgent) > 0
    /\ Head(toAgent).type = "SUMMARIZE"
    /\ Head(toAgent).hasData
    /\ toAgent' = Tail(toAgent)
    /\ Send(Req(RelayType(Head(toAgent).mode),
                "agent", TRUE, Head(toAgent).text, PageUrl, "", "none", 0, 0))
    /\ agent' = [agent EXCEPT
                    !.req = @ \cup {NextId},
                    !.relayed = Append(@, [id |-> NextId,
                                           mode |-> Head(toAgent).mode,
                                           text |-> Head(toAgent).text,
                                           src |-> Head(toAgent).src])]
    /\ UNCHANGED <<engine, life, storeVars, slot, started, done, hist, replies, popup,
                   sidebar, toPanel>>

\* the runtime messages the reply callback (471-480) sends: none, it only
\* posts the response to the sidebar
RelaySavesAll(reply) == {"SAVE_SUMMARY"}

RelaySends(reply) == {}

\* lines 471-480: the reply callback posts SUMMARIZE_RESPONSE to the panel
ForAgent == agent.req

AgentReply ==
    LET k == FirstReply(ForAgent) IN
    /\ k > 0
    /\ replies' = RemoveAt(replies, k)
    /\ agent' = [agent EXCEPT !.req = @ \ {replies[k].id},
                              !.posted = Append(@, replies[k])]
    /\ toPanel' = Append(toPanel, [type |-> "SUMMARIZE_RESPONSE", url |-> 0,
                                   selectedText |-> "", reply |-> replies[k]])
    /\ IF "SAVE_SUMMARY" \in RelaySends(replies[k])
       THEN Send(Req("SAVE_SUMMARY", "agent", TRUE, "missing", PageUrl,
                     replies[k].summary, replies[k].mode, 0, replies[k].id))
       ELSE UNCHANGED <<reqlog, inbox>>
    /\ UNCHANGED <<engine, life, storeVars, slot, started, done, hist, popup, sidebar, toAgent>>

(***************************************************************************)
(* Sidebar (ai.ts:249-304)                                                 *)
(***************************************************************************)
\* the requests that relay a SUMMARIZE message of the Sidebar
PanelRequests ==
    {agent.relayed[i].id : i \in {j \in 1..Len(agent.relayed) :
                                    agent.relayed[j].src = "panel"}}

\* the iframe created by createSidebar has loaded sidebar/index.html and
\* the Sidebar's effect (255-259) registered handleMessage
SidebarMount ==
    /\ agent.sidebar
    /\ ~sidebar.mounted
    /\ sidebar' = [sidebar EXCEPT !.mounted = TRUE]
    /\ UNCHANGED <<engine, life, storeVars, slot, started, done, hist,
                   msgVars, popup, agent, toAgent, toPanel>>

\* a message posted to the iframe's window (README.md:386-392, 473-479)
\* before the Sidebar listens reaches no listener and is gone: openSidebar
\* posts PAGE_CONTEXT right after it appended the iframe
PanelLoses ==
    /\ ~sidebar.mounted
    /\ Len(toPanel) > 0
    /\ toPanel' = Tail(toPanel)
    /\ UNCHANGED <<engine, life, storeVars, slot, started, done, hist,
                   msgVars, popup, sidebar, agent, toAgent>>

\* handleMessage, case PAGE_CONTEXT (265-267)
SidebarPageContext ==
    /\ sidebar.mounted
    /\ Len(toPanel) > 0
    /\ Head(toPanel).type = "PAGE_CONTEXT"
    /\ toPanel' = Tail(toPanel)
    /\ sidebar' = [sidebar EXCEPT !.hasContext = TRUE, !.url = Head(toPanel).url,
                                  !.selectedText = Head(toPanel).selectedText]
    /\ UNCHANGED <<engine, life, storeVars, slot, started, done, hist, msgVars, popup, agent,
                   toAgent>>

\* handleMessage, case SUMMARIZE_RESPONSE (269-277)
SidebarResponse ==
    /\ sidebar.mounted
    /\ Len(toPanel) > 0
    /\ Head(toPanel).type = "SUMMARIZE_RESPONSE"
    /\ toPanel' = Tail(toPanel)
    /\ LET own == IF Head(toPanel).reply.id \in PanelRequests THEN 1 ELSE 0
       IN  sidebar' =
             IF Head(toPanel).reply.success
             THEN [sidebar EXCEPT !.isLoading = FALSE,
                                  !.summary = Head(toPanel).reply.summary,
                                  !.aiMode = Head(toPanel).reply.mode,
                                  !.got = @ + own]
             ELSE [sidebar EXCEPT !.isLoading = FALSE, !.summary = "Error",
                                  !.got = @ + own]
    /\ UNCHANGED <<engine, life, storeVars, slot, started, done, hist, msgVars, popup, agent,
                   toAgent>>

\* handleSummarize (281-300), from an enabled button, with a page context
\* a handler that goes on without a page context
HasPageContextAlways(sb) == TRUE

\* ai.ts:282: if (!pageContext) return
HasPageContext(sb) == sb.hasContext

\* ai.ts:292: pageContext.selectedText || 'Full page content'
SidebarText(sb) ==
    IF sb.selectedText # "" THEN sb.selectedText ELSE "Full page content"

SidebarClick(mode) ==
    /\ sidebar.mounted
    /\ ~sidebar.isLoading
    /\ started < MaxCalls
    /\ started' = started + 1
    /\ IF HasPageContext(sidebar)
       THEN /\ sidebar' = [sidebar EXCEPT
                              !.isLoading = TRUE, !.aiMode = mode,
                              !.sent = @ + 1, !.clicks = @ + 1,
                              !.lastText = SidebarText(sidebar),
                              !.lastSel = SelectionText(agent.sel)]
            /\ toAgent' = Append(toAgent,
                                 [type |-> "SUMMARIZE", hasData |-> TRUE,
                                  text |-> SidebarText(sidebar),
                                  mode |-> mode, src |-> "panel"])
       ELSE /\ sidebar' = [sidebar EXCEPT !.clicks = @ + 1]
            /\ UNCHANGED toAgent
    /\ UNCHANGED <<engine, life, storeVars, slot, done, hist, msgVars, popup, agent, toPanel>>

(***************************************************************************)
(* Other senders: any extension context may send a runtime message         *)
(***************************************************************************)
OtherUrl == PageUrl + 1

OtherShapes ==
    { <<"SUMMARIZE_LOCAL", FALSE, "missing">>,
      <<"GET_CONTEXT", FALSE, "missing">>,
      <<"GET_CONTEXT", TRUE, "missing">>,
      <<"SAVE_SUMMARY", FALSE, "missing">>,
      <<"SAVE_SUMMARY", TRUE, "missing">>,
      <<"PING", TRUE, "missing">> }

OtherSend ==
    /\ started < MaxCalls
    /\ started' = started + 1
    /\ \E shape \in OtherShapes :
        Send(Req(shape[1], "other", shape[2], shape[3],
                 IF shape[2] THEN OtherUrl ELSE 0, "Other", "cloud",
                 IF shape[2] THEN OtherUrl ELSE 0, 0))
    /\ UNCHANGED <<storeVars, slot, done, hist, replies, uiVars>>

(***************************************************************************)
(* AIService (services/ai.ts) as the development guide implements it over  *)
(* chrome.ai (vite.config.ts:366-482; the same code is the commented       *)
(* example of ai.ts:62-79, 112-135, 165-177).  ai.ts as checked in runs    *)
(* placeholders in its place that create no session.                       *)
(* engine.created and engine.destroyed count the create() calls that       *)
(* resolved and the destroy() calls; probe is what capabilities() said in  *)
(* the call in progress; last is how the last call ended.                  *)
(***************************************************************************)
EngineIdle ==
    [op |-> "idle", pc |-> "idle", probe |-> "none", created |-> 0,
     destroyed |-> 0, unprobed |-> FALSE, last |-> "none"]

\* capabilities().available
Availability == {"readily", "after-download", "no"}

EngineSteps(next) ==
    /\ engine' = next
    /\ UNCHANGED <<life, storeVars, slot, started, done, hist, msgVars,
                   popup, sidebar, agent, toAgent, toPanel>>

\* the call ends: it returned a response, threw, or its generator finished
EngineEnds(how, destroyed) ==
    [engine EXCEPT !.op = "idle", !.pc = "idle", !.probe = "none",
                   !.last = how, !.destroyed = @ + destroyed]

\* a surface calls summarizeLocal (guide 366) or analyzeCloud (guide 417):
\* both start by awaiting capabilities(); streamAnalysis (guide 468) starts
\* by awaiting create()
EngineCall(op) ==
    /\ engine.op = "idle"
    /\ started < MaxCalls
    /\ engine' = [engine EXCEPT !.op = op, !.last = "none",
                     !.pc = IF op = "streamAnalysis" THEN "create" ELSE "probe"]
    /\ started' = started + 1
    /\ UNCHANGED <<life, storeVars, slot, done, hist, msgVars, popup,
                   sidebar, agent, toAgent, toPanel>>

\* guide 369-376, 420-427: capabilities() resolved; 'no' returns a failure
EngineProbe(available) ==
    /\ engine.pc = "probe"
    /\ EngineSteps(IF available = "no"
                   THEN [EngineEnds("unavailable", 0) EXCEPT !.probe = "none"]
                   ELSE [engine EXCEPT !.pc = "create", !.probe = available])

\* guide 402-408, 453-459: capabilities() rejected; the catch returns a
\* failure response
EngineProbeFail ==
    /\ engine.pc = "probe"
    /\ EngineSteps(EngineEnds("failure", 0))

\* guide 384-388, 429-435, 469-472: create() resolved
EngineCreate ==
    /\ engine.pc = "create"
    /\ EngineSteps([engine EXCEPT
            !.created = @ + 1,
            !.unprobed = @ \/ engine.probe = "none",
            !.pc = IF engine.op = "streamAnalysis" THEN "next" ELSE "run"])

\* create() rejected: summarizeLocal and analyzeCloud catch it and return a
\* failure; streamAnalysis has no try and throws to its consumer
EngineCreateFail ==
    /\ engine.pc = "create"
    /\ EngineSteps(EngineEnds(IF engine.op = "streamAnalysis" THEN "thrown"
                              ELSE "failure", 0))

\* what summarizeLocal and analyzeCloud destroy when the engine call
\* raises: nothing, destroy() stands after the awaited call inside the try
ReleasedOnRaise == 0

\* guide 391-400, 442-451: summarize() / prompt() resolved, the session is
\* destroyed and the success response returned
EngineRun ==
    /\ engine.pc = "run"
    /\ EngineSteps(EngineEnds("success", 1))

\* guide 402-408, 453-459: summarize() / prompt() rejected, control goes to
\* the catch, which returns a failure response
EngineRunFail ==
    /\ engine.pc = "run"
    /\ EngineSteps(EngineEnds("failure", ReleasedOnRaise))

\* guide 476-478: streamPrompt produced a chunk; the generator yields it
\* and is suspended until its consumer asks for more
EngineChunk ==
    /\ engine.pc = "next"
    /\ EngineSteps([engine EXCEPT !.pc = "yield"])

\* the consumer asks for the next chunk
EngineResume ==
    /\ engine.pc = "yield"
    /\ EngineSteps([engine EXCEPT !.pc = "next"])

\* guide 476-480: the stream is exhausted, the loop ends and the session is
\* destroyed
EngineExhausted ==
    /\ engine.pc = "next"
    /\ EngineSteps(EngineEnds("exhausted", 1))

\* guide 476-478: streamPrompt raised inside the loop; nothing catches it
EngineStreamFail ==
    /\ engine.pc = "next"
    /\ EngineSteps(EngineEnds("thrown", 0))

\* what streamAnalysis destroys when its consumer stops early: the
\* generator is ended at its yield, and no finally block lies around it
ReleasedOnCancel == 0

\* the consumer leaves its for-await loop early: the runtime calls the
\* generator's return(), which ends it at the yield it is suspended on
EngineCancel ==
    /\ engine.pc = "yield"
    /\ EngineSteps(EngineEnds("cancelled", ReleasedOnCancel))

(***************************************************************************)
(* SpecStore: the summaries partition under direct, possibly overlapping,  *)
(* saveSummary and getSummary calls, from an empty store and from stores   *)
(* that earlier saves have filled up to the cap.                           *)
(***************************************************************************)
\* the store after n saveSummary calls for urls 1..n at times 1..n
Prefill(n) == [i \in 1..n |-> Entry(i, "P", "local", i)]

PrefillSizes == {0, MaxSummaries - 1, MaxSummaries}

\* the oldest stored url and two urls never stored before
StoreUrls == {1, MaxSummaries + 1, MaxSummaries + 2}

\* The k-th call of a run carries a text of its own, so that what one call
\* wrote can be told from what another wrote, and the modes alternate
TextNames == <<"T1", "T2", "T3", "T4", "T5", "T6">>

TextOf(k) == TextNames[k]

ModeOf(k) == IF k % 2 = 1 THEN "local" ELSE "cloud"

InitCommon ==
    /\ engine = EngineIdle
    /\ life = Running
    /\ contexts = <<>>
    /\ popup = PopupClosed
    /\ sidebar = SidebarInit
    /\ toAgent = <<>>
    /\ toPanel = <<>>
    /\ slot = [s \in Slots |-> IdleSlot]
    /\ started = 0
    /\ done = NoneDone
    /\ inbox = <<>>
    /\ replies = <<>>
    /\ reqlog = <<>>

InitStore ==
    /\ agent = AgentInit
    /\ \E n \in PrefillSizes :
        /\ summaries = Prefill(n)
        /\ hist = HistOf(n)
    /\ settings = NoSettings
    /\ InitCommon

CallSaveSummary(s) ==
    \E url \in StoreUrls :
        Begin(s, SaveCall(url, TextOf(started + 1), ModeOf(started + 1), 0))

CallGetSummary(s) ==
    \E url \in StoreUrls : Begin(s, GetSummaryCall(url))

NextStore ==
    \E s \in Slots :
        \/ CallSaveSummary(s)
        \/ SaveSummaryRead(s)
        \/ SaveSummaryReadFail(s)
        \/ SaveSummaryWrite(s)
        \/ SaveSummaryWriteFail(s)
        \/ CallGetSummary(s)
        \/ GetSummaryRead(s)
        \/ GetSummaryReadFail(s)

SpecStore == InitStore /\ [][NextStore]_vars


(***************************************************************************)
(* Claims about the summaries partition, checked under SpecStore           *)
(***************************************************************************)
\* C1 (as claimed): round trip.  A getSummary(url) that reads the store
\* after a saveSummary(url, summary, mode) that completed without a storage
\* failure, with no write to the partition in between, returns an entry
\* with exactly that summary and that mode.
C1_RoundTrip ==
    (/\ done.op = "getSummary"
     /\ ~done.failed
     /\ hist.lastSave.valid
     /\ done.url = hist.lastSave.url)
    => /\ done.resS.summary = hist.lastSave.summary
       /\ done.resS.mode = hist.lastSave.mode

\* C5: no value written (or about to be written) to the summaries
\* partition holds more than 100 entries, whatever the interleaving of the
\* saveSummary calls.
C5_AtMostCap ==
    /\ Len(summaries) <= MaxSummaries
    /\ \A s \in Slots : Len(slot[s].pendS) <= MaxSummaries

\* a save that read a copy made stale by another save has landed on a full
\* store and evicted an entry
C5_Witness ==
    /\ hist.overlapped
    /\ hist.evicted # {}
    /\ Len(summaries) = MaxSummaries

\* C6: eviction is by smallest timestamp.  Every entry the last save
\* evicted has a timestamp no greater than that of every entry it kept; and
\* after 101 sequential saves to distinct urls with strictly increasing
\* timestamps the store holds exactly 100 entries, all the urls written
\* but the first.
C6_EvictOldest ==
    /\ \A e \in hist.evicted : \A i \in 1..Len(summaries) :
          e.timestamp <= summaries[i].timestamp
    /\ (hist.strict /\ hist.count = MaxSummaries + 1)
       => /\ Len(summaries) = MaxSummaries
          /\ Urls(summaries) = hist.urls \ {hist.first}

C6_Witness ==
    /\ hist.strict
    /\ hist.count = MaxSummaries + 1
    /\ hist.evicted # {}


(***************************************************************************)
(* SpecData: every StorageManager operation, called directly and possibly  *)
(* overlapping, over a small store; each chrome.storage call may reject.   *)
(***************************************************************************)
DataUrls == {1, 2}

\* settings objects handed to setSettings: one field, another field, all
Partials ==
    { [EmptyObj EXCEPT !["theme"] = "dark"],
      [EmptyObj EXCEPT !["enableSpeech"] = "true"],
      DefaultSettings }

InitData ==
    /\ agent = AgentInit
    /\ \E n \in {0, 2} :
        /\ summaries = Prefill(n)
        /\ hist = HistOf(n)
    /\ settings \in {NoSettings, Stored(DefaultSettings)}
    /\ InitCommon

DataCalls(s) ==
    \/ \E url \in DataUrls :
         Begin(s, SaveCall(url, TextOf(started + 1), ModeOf(started + 1), 0))
    \/ \E url \in DataUrls : Begin(s, GetSummaryCall(url))
    \/ Begin(s, GetAllCall)
    \/ Begin(s, GetSettingsCall)
    \/ \E partial \in Partials : Begin(s, SetSettingsCall(partial))
    \/ \E domain \in Domains \cup {0} : Begin(s, GetContextCall(domain, 0))
    \/ \E domain \in Domains, hasSummary \in BOOLEAN :
         Begin(s, UpdateContextCall(domain, hasSummary, domain,
                                    TextOf(started + 1), ModeOf(started + 1)))
    \/ Begin(s, ClearAllCall)

StorageSteps(s) ==
    \/ SaveSummaryRead(s)
    \/ SaveSummaryReadFail(s)
    \/ SaveSummaryWrite(s)
    \/ SaveSummaryWriteFail(s)
    \/ GetSummaryRead(s)
    \/ GetSummaryReadFail(s)
    \/ GetAllSummariesRead(s)
    \/ GetAllSummariesReadFail(s)
    \/ GetSettingsRead(s)
    \/ GetSettingsReadFail(s)
    \/ SetSettingsRead(s)
    \/ SetSettingsReadFail(s)
    \/ SetSettingsWrite(s)
    \/ SetSettingsWriteFail(s)
    \/ GetContextRead(s)
    \/ GetContextReadFail(s)
    \/ UpdateContextRead(s)
    \/ UpdateContextReadFail(s)
    \/ UpdateContextWrite(s)
    \/ UpdateContextWriteFail(s)
    \/ ClearLocal(s)
    \/ ClearLocalFail(s)
    \/ ClearSync(s)
    \/ ClearSyncFail(s)

NextData == \E s \in Slots : DataCalls(s) \/ StorageSteps(s)

SpecData == InitData /\ [][NextData]_vars

\* C10 (as claimed): a StorageManager call during which the backing store
\* failed, on a read or on a write, still returns normally, yields none or
\* an empty sequence, and has left the persisted state as it was.
C10_FailureIsNoOp ==
    (done.op # "none" /\ done.failed)
    => /\ done.outcome = "returned"
       /\ ~done.wrote
       /\ done.resS = Null
       /\ done.resL = <<>>
       /\ done.resP = NoSettings


(***************************************************************************)
(* SpecCoord: the Coordinator serving the Popup, the Sidebar (through the  *)
(* content script) and other senders, over a store that starts empty.      *)
(***************************************************************************)
\* what the page yields as selectedText || text: '' on a page with no text
PageTexts == {"empty", "some"}

InitCoord ==
    /\ agent \in {[AgentInit EXCEPT !.pageText = t] : t \in PageTexts}
    /\ summaries = <<>>
    /\ hist = HistOf(0)
    /\ settings = Stored(DefaultSettings)
    /\ InitCommon

NextCoord ==
    \/ \E from \in Senders :
        \/ CoordSummarize(from)
        \/ CoordRaise(from)
        \/ CoordUnknown(from)
        \/ \E s \in Slots : CoordGetContext(from, s) \/ CoordSaveSummary(from, s)
    \/ \E s \in Slots :
        \/ SaveSummaryRead(s)
        \/ SaveSummaryReadFail(s)
        \/ SaveSummaryWrite(s)
        \/ SaveSummaryWriteFail(s)
        \/ GetContextRead(s)
        \/ GetContextReadFail(s)
    \/ PopupClick(ModeOf(started + 1))
    \/ SidebarClick(ModeOf(started + 1))
    \/ PopupExtractFail
    \/ PopupSend
    \/ PopupReply
    \/ AgentReply
    \/ AgentOpen
    \/ AgentClose
    \/ PagePost
    \/ AgentSummarizeFail
    \/ AgentSummarize
    \/ SidebarMount
    \/ PanelLoses
    \/ SidebarPageContext
    \/ SidebarResponse
    \/ OtherSend

SpecCoord == InitCoord /\ [][NextCoord]_vars


\* a request is handled once the listener has taken it and no storage call
\* made for it is still running
Handled(id) ==
    /\ \A i \in 1..Len(inbox) : inbox[i] # id
    /\ \A s \in Slots : slot[s].req # id

Quiet ==
    /\ inbox = <<>>
    /\ replies = <<>>
    /\ toAgent = <<>>
    /\ toPanel = <<>>
    /\ popup.pc = "idle"
    /\ \A s \in Slots : slot[s].pc = "idle"

NoStorageFault == \A id \in 1..Len(reqlog) : ~reqlog[id].failed

Succeeded(id) ==
    /\ IsSummarize(reqlog[id])
    /\ Len(reqlog[id].answers) > 0
    /\ reqlog[id].answers[1].success

Refused(id) ==
    /\ IsSummarize(reqlog[id])
    /\ Len(reqlog[id].answers) > 0
    /\ ~reqlog[id].answers[1].success

\* C2: once two SAVE_SUMMARY requests for different urls have both completed
\* without a storage failure, the store holds both entries, each with its
\* own content
C2_BothSavesStored ==
    \A a, b \in 1..Len(reqlog) :
        ( /\ a # b
          /\ reqlog[a].type = "SAVE_SUMMARY" /\ reqlog[b].type = "SAVE_SUMMARY"
          /\ reqlog[a].hasData /\ reqlog[b].hasData
          /\ reqlog[a].url # reqlog[b].url
          /\ Len(reqlog[a].answers) > 0 /\ Len(reqlog[b].answers) > 0
          /\ NoStorageFault )
        => /\ Lookup(summaries, reqlog[a].url).summary = reqlog[a].summary
           /\ Lookup(summaries, reqlog[b].url).summary = reqlog[b].summary

\* C3: when the Coordinator has sent the success reply of a SUMMARIZE_LOCAL
\* or SUMMARIZE_CLOUD request that carries a url, getSummary(url) already
\* returned the reply's content at the moment the reply was sent
C3_PersistedBeforeReply ==
    \A id \in 1..Len(reqlog) :
        (Succeeded(id) /\ reqlog[id].url # 0)
        => reqlog[id].storedAtReply.summary = reqlog[id].answers[1].summary

\* C4: once everything a successful summarize request of the Popup or of
\* the Sidebar has set in motion has run to its end with no storage
\* failure, the store holds a Result for the page url with the returned
\* summary and the requested mode
C4_SuccessLeavesResult ==
    \A id \in 1..Len(reqlog) :
        ( /\ Succeeded(id)
          /\ reqlog[id].from \in {"popup", "agent"}
          /\ Quiet
          /\ NoStorageFault )
        => /\ Lookup(summaries, reqlog[id].url).summary
                = reqlog[id].answers[1].summary
           /\ Lookup(summaries, reqlog[id].url).mode
                = reqlog[id].answers[1].mode

\* C7: a summarize request answered with success:false never causes a
\* Result to be persisted: its handler writes nothing to the summaries
\* partition and no SAVE_SUMMARY is ever sent for it
C7_FailureNeverPersists ==
    \A id \in 1..Len(reqlog) :
        Refused(id)
        => /\ ~reqlog[id].wrote
           /\ \A j \in 1..Len(reqlog) :
                ~(reqlog[j].type = "SAVE_SUMMARY" /\ reqlog[j].cause = id)

\* a failed summarize request of the content script whose reply the
\* callback has received and passed on to the sidebar
C7_Witness ==
    \E id \in 1..Len(reqlog) :
        /\ Refused(id)
        /\ reqlog[id].from = "agent"
        /\ id \notin agent.req
        /\ \A k \in 1..Len(replies) : replies[k].id # id

\* C8: a SUMMARIZE_LOCAL or SUMMARIZE_CLOUD request whose text is empty is
\* answered with success:false
C8_EmptyTextRejected ==
    \A id \in 1..Len(reqlog) :
        (IsSummarize(reqlog[id]) /\ reqlog[id].hasData /\ reqlog[id].text = "empty"
            /\ Len(reqlog[id].answers) > 0)
        => ~reqlog[id].answers[1].success

\* C9: every message the listener has handled was answered exactly once with
\* a boolean success, never more than once at any time, an unrecognized type
\* with success:false, and no fault left its handler
C9_ExactlyOneReply ==
    \A id \in 1..Len(reqlog) :
        /\ Len(reqlog[id].answers) <= 1
        /\ ~reqlog[id].fault
        /\ Handled(id) => Len(reqlog[id].answers) = 1
        /\ \A k \in 1..Len(reqlog[id].answers) :
            /\ reqlog[id].answers[k].success \in BOOLEAN
            /\ reqlog[id].type \notin Cases => ~reqlog[id].answers[k].success

\* an unrecognized type and a SAVE_SUMMARY without data have both been handled
C9_Witness ==
    /\ \E id \in 1..Len(reqlog) :
        reqlog[id].type \notin Cases /\ Handled(id)
    /\ \E id \in 1..Len(reqlog) :
        /\ reqlog[id].type \in {"GET_CONTEXT", "SAVE_SUMMARY"}
        /\ ~reqlog[id].hasData
        /\ Handled(id)


(***************************************************************************)
(* SpecCtx: updateContext and getContext, called directly and possibly     *)
(* overlapping, over a site-context partition in which domain 1 has been   *)
(* visited 0, 9 or 10 times, each time with a summary.                     *)
(***************************************************************************)
\* the partition after n updateContext(1, summary_i) calls at times 1..n,
\* for n within the cap
PrefillContext(n) ==
    IF n = 0 THEN <<>>
    ELSE << [domain |-> 1, visits |-> n, lastVisit |-> n,
             summaries |-> CtxHistOf(n).supplied[1]] >>

PrefillVisits == {0, MaxContextSummaries - 1, MaxContextSummaries}

InitCtx ==
    /\ \E n \in PrefillVisits :
        /\ contexts = PrefillContext(n)
        /\ hist = [HistOf(0) EXCEPT !.ctx = CtxHistOf(n)]
    /\ summaries = <<>>
    /\ settings = NoSettings
    /\ agent = AgentInit
    /\ popup = PopupClosed
    /\ sidebar = SidebarInit
    /\ toAgent = <<>>
    /\ toPanel = <<>>
    /\ engine = EngineIdle
    /\ life = Running
    /\ slot = [s \in Slots |-> IdleSlot]
    /\ started = 0
    /\ done = NoneDone
    /\ inbox = <<>>
    /\ replies = <<>>
    /\ reqlog = <<>>

CallUpdateContext(s) ==
    \E domain \in Domains, hasSummary \in BOOLEAN :
        Begin(s, UpdateContextCall(domain, hasSummary, domain,
                                   TextOf(started + 1), ModeOf(started + 1)))

CallGetContext(s) ==
    \E domain \in Domains \cup {0} : Begin(s, GetContextCall(domain, 0))

NextCtx ==
    \E s \in Slots :
        \/ CallUpdateContext(s)
        \/ CallGetContext(s)
        \/ UpdateContextRead(s)
        \/ UpdateContextReadFail(s)
        \/ UpdateContextWrite(s)
        \/ UpdateContextWriteFail(s)
        \/ GetContextRead(s)
        \/ GetContextReadFail(s)

SpecCtx == InitCtx /\ [][NextCtx]_vars

\* the last m elements of a list
LastOf(list, m) == [j \in 1..m |-> list[Len(list) - m + j]]

MinOf(a, b) == IF a <= b THEN a ELSE b

StoredContext(d) == contexts[DomainIndex(contexts, d)]

\* C11: no stored domain holds more than 10 summaries, and after k
\* sequential updateContext(domain, summary_i) calls that met no storage
\* failure the domain's summaries are the last min(k, 10) supplied ones, in
\* supply order
C11_LastTenInOrder ==
    /\ \A i \in 1..Len(contexts) :
        Len(contexts[i].summaries) <= MaxContextSummaries
    /\ hist.ctx.sequential =>
        \A d \in Domains :
            LET sup == hist.ctx.supplied[d]
            IN  IF HasDomain(contexts, d)
                THEN StoredContext(d).summaries
                        = LastOf(sup, MinOf(Len(sup), MaxContextSummaries))
                ELSE sup = <<>>

\* an eleventh summary has been supplied for domain 1 by sequential calls
C11_Witness ==
    /\ hist.ctx.sequential
    /\ Len(hist.ctx.supplied[1]) > MaxContextSummaries
    /\ done.op = "updateContext"
    /\ \A s \in Slots : slot[s].op = "idle"

\* C12: a domain has a context once an updateContext call for it has
\* written, and after n sequential calls for it that met no storage failure,
\* with or without a summary, its visits equals n
C12_VisitsCountCalls ==
    hist.ctx.sequential =>
        \A d \in Domains :
            IF hist.ctx.calls[d] = 0 THEN ~HasDomain(contexts, d)
            ELSE /\ HasDomain(contexts, d)
                 /\ StoredContext(d).visits = hist.ctx.calls[d]

\* domain 2, unknown at first, was visited twice, at least once without a
\* summary
C12_Witness ==
    /\ hist.ctx.sequential
    /\ hist.ctx.calls[2] = 2
    /\ Len(hist.ctx.supplied[2]) < 2
    /\ \A s \in Slots : slot[s].op = "idle"

\* C14: a getContext(domain) that met no storage failure returns no element
\* when the domain has no stored context and exactly that domain's context
\* otherwise; getContext() returns every stored context, by lastVisit
\* descending
C14_GetContextResult ==
    (done.op = "getContext" /\ ~done.failed) =>
        IF done.domain # 0
        THEN IF HasDomain(contexts, done.domain)
             THEN done.resL = <<StoredContext(done.domain)>>
             ELSE done.resL = <<>>
        ELSE /\ Len(done.resL) = Len(contexts)
             /\ Range(done.resL) = Range(contexts)
             /\ \A i, j \in 1..Len(done.resL) :
                    i < j => done.resL[i].lastVisit >= done.resL[j].lastVisit

\* getContext() returned two contexts in another order than they are stored
C14_Witness ==
    /\ done.op = "getContext" /\ ~done.failed
    /\ done.domain = 0
    /\ Len(done.resL) = 2
    /\ done.resL # contexts


\* C13: once a summarize request whose url identifies a site has been
\* answered success:true, the site-context partition holds a context for
\* that site, so that GET_CONTEXT for it returns one element (the model
\* names a site by the number of its page's url)
C13_VisitRecorded ==
    \A id \in 1..Len(reqlog) :
        (Succeeded(id) /\ reqlog[id].url # 0)
        => Len(ContextResult(contexts, reqlog[id].url)) = 1


\* C15: when a clearAll call that met no storage failure has returned, the
\* summaries partition, the site-context partition and the settings are all
\* empty
C15_ClearAllEmpties ==
    (done.op = "clearAll" /\ ~done.failed)
    => /\ summaries = <<>>
       /\ contexts = <<>>
       /\ settings = NoSettings


(***************************************************************************)
(* SpecEngine: the surfaces call the AIService entry points, one call at a *)
(* time; every chrome.ai call may resolve or reject.                       *)
(***************************************************************************)
EngineOps == {"summarizeLocal", "analyzeCloud", "streamAnalysis"}

InitEngine ==
    /\ summaries = <<>>
    /\ hist = HistOf(0)
    /\ settings = Stored(DefaultSettings)
    /\ agent = AgentInit
    /\ InitCommon

NextEngine ==
    \/ \E op \in EngineOps : EngineCall(op)
    \/ \E available \in Availability : EngineProbe(available)
    \/ EngineProbeFail
    \/ EngineCreate
    \/ EngineCreateFail
    \/ EngineRun
    \/ EngineRunFail
    \/ EngineChunk
    \/ EngineResume
    \/ EngineExhausted
    \/ EngineStreamFail
    \/ EngineCancel

SpecEngine == InitEngine /\ [][NextEngine]_vars

PopupMount(s) ==
    /\ life.installed
    /\ ~popup.query
    /\ FreeSlot(s)
    /\ started < MaxCalls
    /\ slot' = [slot EXCEPT ![s] = [GetSettingsCall EXCEPT !.by = "popup"]]
    /\ started' = started + 1
    /\ popup' = [popup EXCEPT !.query = TRUE]
    /\ UNCHANGED <<engine, life, storeVars, done, hist, msgVars, sidebar,
                   agent, toAgent, toPanel>>

\* lines 69-73: the query resolved; with a tab url the Popup reads the
\* page's summary, and tab.url is undefined on a tab it may not inspect
PopupTabQueried(s, hasUrl) ==
    /\ popup.query
    /\ popup' = [popup EXCEPT !.query = FALSE]
    /\ IF hasUrl
       THEN /\ FreeSlot(s)
            /\ slot' = [slot EXCEPT ![s] =
                   [GetSummaryCall(PageUrl) EXCEPT !.by = "popup"]]
       ELSE /\ s = 1
            /\ UNCHANGED slot
    /\ UNCHANGED <<engine, life, storeVars, started, done, hist, msgVars,
                   sidebar, agent, toAgent, toPanel>>

\* lines 74-75: the query rejected; the error is logged
PopupTabQueryFail ==
    /\ popup.query
    /\ popup' = [popup EXCEPT !.query = FALSE]
    /\ UNCHANGED <<engine, life, storeVars, slot, started, done, hist,
                   msgVars, sidebar, agent, toAgent, toPanel>>

\* the settings fields the Popup's controls change, and the value each
\* control sets when the component holds the initial settings
Controls == {"theme", "enableSpeech", "autoSummarize"}

Flipped(field) == IF field = "theme" THEN "dark" ELSE "true"

\* toggleTheme (148-153) and the two checkboxes (263-267, 276-280): the
\* Popup writes { ...settings, [field]: value } itself, not awaiting it.
\* settings is the component's copy, which starts as the defaults
PopupSetSettings(s, field) ==
    /\ life.installed
    /\ Begin(s, [SetSettingsCall([DefaultSettings
                                  EXCEPT ![field] = Flipped(field)])
                 EXCEPT !.by = "popup"])

(***************************************************************************)
(* Activations of the service worker (part_000:310-321, 455-457)           *)
(***************************************************************************)
\* details.reason of chrome.runtime.onInstalled
InstallReasons == {"install", "update", "chrome_update"}

\* a listener that writes the defaults whatever the reason
WritesDefaultsAlways(reason) == TRUE

\* line 313: if (details.reason === 'install')
WritesDefaults(reason) == reason = "install"

\* onInstalled (310-321).  Chrome fires it with reason 'install' once,
\* before anything else of the extension runs, and with the other reasons
\* only later.  setSettings is called and not awaited
OnInstalled(reason) ==
    /\ (reason = "install") = ~life.installed
    /\ reason # "install" => started < MaxCalls
    /\ started' = IF reason = "install" THEN started ELSE started + 1
    /\ IF WritesDefaults(reason)
       THEN /\ \E s \in Slots :
                 /\ FreeSlot(s)
                 /\ slot' = [slot EXCEPT ![s] =
                        [SetSettingsCall(DefaultSettings)
                         EXCEPT !.by = "background"]]
            /\ life' = [installed |-> TRUE, last |-> reason,
                        defaults |-> life.defaults + 1]
       ELSE /\ UNCHANGED slot
            /\ life' = [life EXCEPT !.last = reason]
    /\ UNCHANGED <<storeVars, done, hist, msgVars, popup, sidebar, agent,
                   toAgent, toPanel, engine>>

\* an activation whose listener only logs
Activated(how) ==
    /\ life.installed
    /\ started < MaxCalls
    /\ started' = started + 1
    /\ life' = [life EXCEPT !.last = how]
    /\ UNCHANGED <<storeVars, slot, done, hist, msgVars, popup, sidebar,
                   agent, toAgent, toPanel, engine>>

\* onStartup (455-457): the browser started
OnStartup == Activated("startup")

\* the service worker was stopped and started again: the module's top
\* level runs (310, 324, 455), which registers the listeners
WorkerRestart == Activated("restart")

(***************************************************************************)
(* SpecSurf: the extension from its installation on; the user can reach    *)
(* a surface only once it is installed.  The user opens the               *)
(* Popup, summarizes from the Popup and the Sidebar and changes settings,  *)
(* while the service worker is updated, started and restarted.             *)
(***************************************************************************)
InitSurf ==
    /\ life = NotInstalled
    /\ agent \in {[AgentInit EXCEPT !.pageText = t] : t \in PageTexts}
    /\ summaries = <<>>
    /\ contexts = <<>>
    /\ settings = NoSettings
    /\ hist = HistOf(0)
    /\ engine = EngineIdle
    /\ popup = PopupClosed
    /\ sidebar = SidebarInit
    /\ toAgent = <<>>
    /\ toPanel = <<>>
    /\ slot = [s \in Slots |-> IdleSlot]
    /\ started = 0
    /\ done = NoneDone
    /\ inbox = <<>>
    /\ replies = <<>>
    /\ reqlog = <<>>

NextSurf ==
    \/ \E reason \in InstallReasons : OnInstalled(reason)
    \/ \E from \in Senders :
        \/ CoordSummarize(from)
        \/ \E s \in Slots : CoordSaveSummary(from, s)
    \/ \E s \in Slots :
        \/ SaveSummaryRead(s)
        \/ SaveSummaryReadFail(s)
        \/ SaveSummaryWrite(s)
        \/ SaveSummaryWriteFail(s)
        \/ GetSummaryRead(s)
        \/ GetSummaryReadFail(s)
        \/ GetSettingsRead(s)
        \/ GetSettingsReadFail(s)
        \/ SetSettingsRead(s)
        \/ SetSettingsReadFail(s)
        \/ SetSettingsWrite(s)
        \/ SetSettingsWriteFail(s)
        \/ PopupMount(s)
        \/ \E hasUrl \in BOOLEAN : PopupTabQueried(s, hasUrl)
        \/ \E field \in Controls : PopupSetSettings(s, field)
    \/ PopupTabQueryFail
    \/ PopupClick(ModeOf(started + 1))
    \/ SidebarClick(ModeOf(started + 1))
    \/ PopupExtractFail
    \/ PopupSend
    \/ PopupReply
    \/ AgentReply
    \/ AgentOpen
    \/ AgentClose
    \/ AgentSummarize
    \/ SidebarMount
    \/ PanelLoses
    \/ SidebarPageContext
    \/ SidebarResponse
    \/ OnStartup
    \/ WorkerRestart

SpecSurf == InitSurf /\ [][NextSurf]_vars

\* the operations that write the summaries or the site-context partition
PartitionWriters == {"saveSummary", "updateContext", "clearAll"}

\* C19: the summaries partition and the site-context partition are written
\* only by calls running in the Coordinator: no call of a surface is an
\* operation that writes them, and every step that changes either
\* partition is a step of a Coordinator call.  A surface's own calls read
\* a partition or read and write the settings
C19_OnlyCoordinatorWrites ==
    /\ [](\A s \in Slots :
            slot[s].by # "background" =>
                slot[s].op \in {"idle", "getSettings", "getSummary",
                                "setSettings"})
    /\ [][(summaries' # summaries \/ contexts' # contexts) =>
            \E s \in Slots :
                /\ slot[s].by = "background"
                /\ slot[s].op \in PartitionWriters
                /\ slot'[s] # slot[s]]_vars

\* a summary the Coordinator saved is stored, and the Popup's own
\* setSettings call changed the settings
C19_Witness ==
    /\ summaries # <<>>
    /\ done.op = "setSettings" /\ done.by = "popup" /\ done.wrote

\* C20: the activation listeners start one write of the default settings,
\* on the activation with reason 'install', and what that call sets is the
\* defaults; every later activation starts no StorageManager call and
\* leaves the settings and both partitions as they are
C20_DefaultsOnce ==
    /\ [](life.defaults = IF life.installed THEN 1 ELSE 0)
    /\ [](\A s \in Slots :
            (slot[s].by = "background" /\ slot[s].op = "setSettings") =>
                /\ slot[s].partial = DefaultSettings
                /\ slot[s].pc = "set" => slot[s].pendP = DefaultSettings)
    /\ [][(life' # life /\ life.installed) =>
            UNCHANGED <<storeVars, slot>>]_vars

\* the install wrote the defaults, they are still stored, and the service
\* worker was activated again since
C20_Witness ==
    /\ life.installed /\ life.last # "install"
    /\ done.op = "setSettings" /\ done.by = "background" /\ done.wrote
    /\ settings = Stored(DefaultSettings)

\* C21: once the install's write of the defaults has returned, the
\* settings are stored in every later state: no step removes them, and a
\* getSettings call that meets no storage failure returns the stored
\* object, never null
C21_PreferencesExist ==
    /\ [][(done' # done /\ done'.op = "setSettings"
           /\ done'.by = "background" /\ ~done'.failed)
          => settings'.present]_vars
    /\ [][settings.present => settings'.present]_vars
    /\ [][(done' # done /\ done'.op = "getSettings" /\ ~done'.failed
           /\ settings.present)
          => (done'.resP.present /\ done'.resP = settings)]_vars

\* after a restart of the service worker the Popup is opened and its
\* getSettings returns the stored settings
C21_Witness ==
    /\ life.last = "restart"
    /\ done.op = "getSettings" /\ done.by = "popup" /\ ~done.failed
    /\ done.resP.present

AgentReinit ==
    /\ life.installed
    /\ started < MaxCalls
    /\ started' = started + 1
    /\ agent' = [agent EXCEPT !.inits = @ + 1,
                              !.fabs = IF FabAbsent(agent) THEN @ + 1 ELSE @]
    /\ UNCHANGED <<engine, life, storeVars, slot, done, hist, msgVars, popup,
                   sidebar, toAgent, toPanel>>

\* the PAGE_CONTEXT message of openSidebar (379-392)
PageContext(sel) ==
    [type |-> "PAGE_CONTEXT", url |-> PageUrl, selectedText |-> sel,
     reply |-> FailureReply(0)]

\* toggleSidebar (352-358) of the later instances, after the first
\* instance's: a later instance holds no iframe and its isSidebarOpen is
\* false, so it runs openSidebar, whose createSidebar adds an iframe of
\* its own, and shows it, only when the document holds none
LaterToggled(a) ==
    IF a.inits > 1 /\ PanelAbsent(a)
    THEN [a EXCEPT !.panels = @ + 1, !.shown = TRUE]
    ELSE a

\* a TOGGLE_SIDEBAR runtime message (312-317): the listener of every
\* instance calls toggleSidebar, the first instance's first.  A later
\* instance holds no iframe: its openSidebar calls createSidebar, which
\* adds one only if the document holds none, and the first instance has
\* just opened or closed the one it created.  Every listener calls
\* sendResponse({ success: true }) (316); the first call is the answer
AgentToggleMsg ==
    /\ life.installed
    /\ started < MaxCalls
    /\ started' = started + 1
    /\ LET first == IF agent.isSidebarOpen THEN Closed(agent)
                    ELSE Opened(agent)
       IN  agent' = [LaterToggled(first) EXCEPT
                        !.toggles = @ + 1, !.msgs = @ + 1, !.acks = @ + 1,
                        !.msgAt = agent.inits]
    /\ IF agent.isSidebarOpen
       THEN UNCHANGED toPanel
       ELSE toPanel' = Append(toPanel,
                              PageContext(SelectionText(agent.sel)))
    /\ UNCHANGED <<engine, life, storeVars, slot, done, hist, msgVars, popup,
                   sidebar, toAgent>>

\* the selections a mouseup may find: none, white space only, 50 or 51
\* characters, bare or with white space around them
Selections == {[body |-> b, pad |-> w] : b \in {0, 50, 51}, w \in {0, 2}}

\* the length of the selection's string as it is, white space included
RawLength(sel) == sel.body + sel.pad

\* line 440: toString().trim() drops the white space around the selection
TrimmedLength(sel) == sel.body

\* the mouseup listener (439-454): the button carries 'has-selection' when
\* the trimmed selection is longer than 50 characters.  A later instance's
\* listener holds no button and does nothing
MouseUp(sel) ==
    /\ life.installed
    /\ started < MaxCalls
    /\ started' = started + 1
    /\ agent' = [agent EXCEPT !.sel = sel,
                              !.hasSelection = TrimmedLength(sel) > 50]
    /\ UNCHANGED <<engine, life, storeVars, slot, done, hist, msgVars, popup,
                   sidebar, toAgent, toPanel>>

\* Sidebar.handleClose (ai.ts:302-304), from the Close button of a panel
\* that is shown
SidebarClose ==
    /\ sidebar.mounted
    /\ agent.shown
    /\ started < MaxCalls
    /\ started' = started + 1
    /\ toAgent' = Append(toAgent, [type |-> "CLOSE_SIDEBAR", hasData |-> FALSE,
                                   text |-> "", mode |-> "none",
                                   src |-> "panel"])
    /\ UNCHANGED <<engine, life, storeVars, slot, done, hist, msgVars, popup,
                   sidebar, agent, toPanel>>

\* the window message listener (425-428) on CLOSE_SIDEBAR: closeSidebar
AgentCloseMsg ==
    /\ Len(toAgent) > 0
    /\ Head(toAgent).type = "CLOSE_SIDEBAR"
    /\ toAgent' = Tail(toAgent)
    /\ agent' = Closed(agent)
    /\ UNCHANGED <<engine, life, storeVars, slot, started, done, hist,
                   msgVars, popup, sidebar, toPanel>>

(***************************************************************************)
(* SpecPanel: one page with the content script and its Sidebar, the        *)
(* Coordinator answering the relayed requests, the user toggling the       *)
(* panel, selecting text and asking for summaries, and scripts of the      *)
(* page posting window messages.  The run starts on a fresh page or with   *)
(* the panel opened once and its page context received.                    *)
(***************************************************************************)
\* the content script after one openSidebar
AgentOpened == [Opened(AgentInit) EXCEPT !.toggles = 1]

\* the Sidebar after it mounted and handled that PAGE_CONTEXT
SidebarOpened ==
    [SidebarInit EXCEPT !.mounted = TRUE, !.hasContext = TRUE,
                        !.url = PageUrl]

InitPanel ==
    /\ \/ agent = AgentInit /\ sidebar = SidebarInit
       \/ agent = AgentOpened /\ sidebar = SidebarOpened
    /\ life = Running
    /\ engine = EngineIdle
    /\ summaries = <<>>
    /\ contexts = <<>>
    /\ settings = Stored(DefaultSettings)
    /\ hist = HistOf(0)
    /\ popup = PopupClosed
    /\ toAgent = <<>>
    /\ toPanel = <<>>
    /\ slot = [s \in Slots |-> IdleSlot]
    /\ started = 0
    /\ done = NoneDone
    /\ inbox = <<>>
    /\ replies = <<>>
    /\ reqlog = <<>>

NextPanel ==
    \/ AgentReinit
    \/ AgentOpen
    \/ AgentClose
    \/ AgentToggleMsg
    \/ \E sel \in Selections : MouseUp(sel)
    \/ SidebarMount
    \/ PanelLoses
    \/ SidebarPageContext
    \/ SidebarClick(ModeOf(started + 1))
    \/ SidebarClose
    \/ AgentCloseMsg
    \/ PagePost
    \/ AgentSummarizeFail
    \/ AgentSummarize
    \/ CoordSummarize("agent")
    \/ CoordRaise("agent")
    \/ AgentReply
    \/ SidebarResponse

SpecPanel == InitPanel /\ [][NextPanel]_vars

\* C23: however often init has run in the page, the document holds at most
\* one element 'contextaware-fab' and at most one 'contextaware-sidebar'
C23_OneControlOnePanel ==
    agent.fabs <= 1 /\ agent.panels <= 1

\* init ran again, and every instance was then asked to toggle the panel
C23_Witness ==
    /\ agent.inits > 1
    /\ agent.toggles > 0
    /\ agent.fabs = 1 /\ agent.panels = 1

\* C24: every toggleSidebar call of the instance that owns the control
\* flips isSidebarOpen; the panel is shown exactly when the flag is set,
\* and the control carries 'active' exactly when the flag is set
C24_ToggleFlips ==
    /\ [][agent'.toggles # agent.toggles =>
            agent'.isSidebarOpen = ~agent.isSidebarOpen]_vars
    /\ [](agent.shown = agent.isSidebarOpen)
    /\ [](agent.fabActive = agent.isSidebarOpen)

\* two toggles later the panel is closed and hidden again
C24_Witness ==
    /\ agent.toggles = 2
    /\ ~agent.isSidebarOpen /\ ~agent.shown /\ ~agent.fabActive
    /\ agent.panels = 1

\* C25 (as claimed): once the panel is open and no PAGE_CONTEXT message is
\* on its way, the Sidebar holds the page context of the current page
C25_ContextHeld ==
    (/\ agent.isSidebarOpen
     /\ \A i \in 1..Len(toPanel) : toPanel[i].type # "PAGE_CONTEXT")
    => (sidebar.hasContext /\ sidebar.url = PageUrl)

\* C26: after a mouseup the control carries 'has-selection' exactly when
\* the selection, white space around it dropped, is longer than 50
\* characters
C26_SelectionMarker ==
    agent.hasSelection = (agent.sel.body > 50)

\* a selection of 50 characters with white space around it left the
\* marker off; TLC also reaches 51 characters with the marker set
C26_Witness ==
    /\ agent.sel = [body |-> 50, pad |-> 2]
    /\ ~agent.hasSelection

\* the requests the content script sent to the Coordinator
AgentRequests == {id \in 1..Len(reqlog) : reqlog[id].from = "agent"}

\* C27: each SUMMARIZE message the content script handled became exactly
\* one request, SUMMARIZE_LOCAL for mode 'local' and SUMMARIZE_CLOUD for
\* any other mode, with the message's text and the page url; each reply
\* handed to its callback was posted to the panel once, as the Coordinator
\* sent it
C27_RelayedOnce ==
    /\ AgentRequests = {agent.relayed[i].id : i \in 1..Len(agent.relayed)}
    /\ Cardinality(AgentRequests) = Len(agent.relayed)
    /\ \A i \in 1..Len(agent.relayed) :
        LET m == agent.relayed[i]
            r == reqlog[m.id]
        IN  /\ r.type = IF m.mode = "local" THEN "SUMMARIZE_LOCAL"
                        ELSE "SUMMARIZE_CLOUD"
            /\ r.text = m.text
            /\ r.url = PageUrl
    /\ \A j \in 1..Len(agent.posted) :
        /\ agent.posted[j].id \in AgentRequests
        /\ reqlog[agent.posted[j].id].answers = <<agent.posted[j]>>
        /\ \A k \in 1..Len(agent.posted) :
            agent.posted[k].id = agent.posted[j].id => k = j
    /\ \A id \in AgentRequests :
        (reqlog[id].answers # <<>> /\ id \notin agent.req
         /\ \A k \in 1..Len(replies) : replies[k].id # id)
        => \E j \in 1..Len(agent.posted) : agent.posted[j].id = id
    /\ \A i \in 1..Len(toPanel) :
        toPanel[i].type = "SUMMARIZE_RESPONSE" =>
            reqlog[toPanel[i].reply.id].answers = <<toPanel[i].reply>>

\* the Sidebar asked for a cloud summary and the Coordinator's reply to
\* the relayed request was posted back and handled
C27_Witness ==
    /\ Len(agent.posted) > 0
    /\ \E i \in 1..Len(agent.relayed) :
        /\ agent.relayed[i].src = "panel"
        /\ agent.relayed[i].mode = "cloud"
        /\ agent.posted[1].id = agent.relayed[i].id
        /\ agent.posted[1].success
    /\ sidebar.got = 1

\* C28: a step that closes the panel sends nothing to the Coordinator and
\* leaves the pending reply callbacks pending; the Coordinator answers
\* every relayed request it received, once, whatever the panel's state;
\* and the step that posts a reply to the panel leaves isSidebarOpen and
\* the panel's visibility as they were
C28_CloseCancelsNothing ==
    /\ [][(agent.isSidebarOpen /\ ~agent'.isSidebarOpen) =>
            (UNCHANGED <<inbox, reqlog, replies>> /\ agent'.req = agent.req)
         ]_vars
    /\ [][Len(agent'.posted) # Len(agent.posted) =>
            (/\ agent'.isSidebarOpen = agent.isSidebarOpen
             /\ agent'.shown = agent.shown)]_vars
    /\ [](\A id \in AgentRequests :
            (\A i \in 1..Len(inbox) : inbox[i] # id)
            => Len(reqlog[id].answers) = 1)

\* the panel is closed while the callback of a relayed request is pending,
\* and the Coordinator's reply to it is on its way
C28_Witness ==
    /\ ~agent.isSidebarOpen /\ ~agent.shown
    /\ \E k \in 1..Len(replies) :
        replies[k].id \in agent.req \cap PanelRequests

\* C29 (as claimed): a surface has at most one summarize request whose
\* reply it has not handled, and its isLoading flag is set for as long as
\* it has one
C29_OneOutstanding ==
    /\ popup.pc # "idle" => popup.isLoading
    /\ sidebar.sent - sidebar.got <= 1
    /\ sidebar.sent > sidebar.got => sidebar.isLoading

\* C30 (as claimed), for the Sidebar: opened on a page whose Result is
\* stored, with its page context received, no StorageManager call or
\* message on its way and no request asked for yet, the Sidebar shows the
\* stored summary
C30_OpenRendersStored ==
    (/\ sidebar.mounted /\ sidebar.hasContext /\ sidebar.url = PageUrl
     /\ sidebar.sent = 0
     /\ HasKey(summaries, PageUrl)
     /\ \A s \in Slots : slot[s].op = "idle"
     /\ toPanel = <<>> /\ toAgent = <<>>)
    => sidebar.summary = Lookup(summaries, PageUrl).summary

(***************************************************************************)
(* SpecRoute: the Popup and the Sidebar of an opened panel both ask for    *)
(* summaries, so that requests of two surfaces are with the Coordinator    *)
(* at once and are handled in either order.                                *)
(***************************************************************************)
InitRoute ==
    /\ agent = AgentOpened
    /\ sidebar = SidebarOpened
    /\ life = Running
    /\ engine = EngineIdle
    /\ summaries = <<>>
    /\ contexts = <<>>
    /\ settings = Stored(DefaultSettings)
    /\ hist = HistOf(0)
    /\ popup = PopupClosed
    /\ toAgent = <<>>
    /\ toPanel = <<>>
    /\ slot = [s \in Slots |-> IdleSlot]
    /\ started = 0
    /\ done = NoneDone
    /\ inbox = <<>>
    /\ replies = <<>>
    /\ reqlog = <<>>

NextRoute ==
    \/ \E mode \in Modes : PopupClick(mode)
    \/ PopupExtractFail
    \/ PopupSend
    \/ PopupReply
    \/ \E mode \in Modes : SidebarClick(mode)
    \/ AgentSummarize
    \/ AgentReply
    \/ SidebarResponse
    \/ \E from \in {"popup", "agent"} : CoordSummarize(from)
    \/ \E s \in Slots :
        \/ CoordSaveSummary("popup", s)
        \/ SaveSummaryRead(s)
        \/ SaveSummaryReadFail(s)
        \/ SaveSummaryWrite(s)
        \/ SaveSummaryWriteFail(s)

SpecRoute == InitRoute /\ [][NextRoute]_vars

\* the mode a summarize request asks for by its type
ModeAsked(r) == IF r.type = "SUMMARIZE_LOCAL" THEN "local" ELSE "cloud"

\* C31: every reply on its way to a callback answers a request of the
\* surface that holds the callback; every reply the content script's
\* callback posted answers a request the content script sent, and what the
\* Popup shows after a success is the summary of the mode it asked for;
\* every success reply to a summarize request carries the mode of that
\* request, in whatever order the requests were handled
C31_RepliesRouted ==
    /\ \A id \in 1..Len(reqlog) :
        \A n \in 1..Len(reqlog[id].answers) :
            LET a == reqlog[id].answers[n] IN
            /\ a.id = id
            /\ (a.success /\ IsSummarize(reqlog[id])) =>
                   a.mode = ModeAsked(reqlog[id])
    /\ \A j \in 1..Len(agent.posted) :
        reqlog[agent.posted[j].id].from = "agent"
    /\ \A i \in 1..Len(toPanel) :
        toPanel[i].type = "SUMMARIZE_RESPONSE" =>
            reqlog[toPanel[i].reply.id].from = "agent"
    /\ (popup.pc = "idle" /\ popup.req # 0
        /\ popup.currentSummary \in {LocalPlaceholder, CloudPlaceholder})
       => /\ reqlog[popup.req].from = "popup"
          /\ popup.currentSummary =
                IF popup.mode = "local" THEN LocalPlaceholder
                ELSE CloudPlaceholder

\* the Popup asked for a local summary and then the Sidebar for a cloud
\* summary; the Sidebar's request was handled first and its reply has been
\* posted to the panel while the Popup's request is still waiting
C31_Witness ==
    /\ \E i \in 1..Len(inbox) :
        /\ reqlog[inbox[i]].from = "popup"
        /\ reqlog[inbox[i]].type = "SUMMARIZE_LOCAL"
        /\ \E j \in 1..Len(agent.posted) :
            /\ agent.posted[j].id > inbox[i]
            /\ agent.posted[j].success
            /\ agent.posted[j].mode = "cloud"

(***************************************************************************)
(* Claims about saves of one url, checked under SpecStore                  *)
(***************************************************************************)
\* the last two saves that reached the store were for the same url, and no
\* call is in progress
SameUrlTwice ==
    /\ \A s \in Slots : slot[s].op = "idle"
    /\ hist.lastSave.valid
    /\ hist.prevSave.valid
    /\ hist.prevSave.url = hist.lastSave.url

\* the entry is the Result one save wrote, all its fields from that save
WrittenBy(e, save) ==
    /\ e.url = save.url
    /\ e.summary = save.summary
    /\ e.mode = save.mode
    /\ e.timestamp = save.ts

\* the entry stored for the url, if any, is the Result of one of the two
\* saves as a whole
StoredWhole ==
    LET u == hist.lastSave.url IN
    HasKey(summaries, u) =>
        \/ WrittenBy(Lookup(summaries, u), hist.lastSave)
        \/ WrittenBy(Lookup(summaries, u), hist.prevSave)

\* C32 (as claimed): after two saveSummary calls for the same url have
\* completed, in either order or interleaved, the entry stored for that url
\* is one of the two written Results as a whole, and every entry of another
\* url that was in the store before the calls is still there.
C32_SameUrlSaves ==
    SameUrlTwice =>
        /\ StoredWhole
        /\ \A v \in hist.initial \ {hist.lastSave.url} : HasKey(summaries, v)

\* C32 (amended): after two saveSummary calls for the same url have
\* completed, the entry stored for that url is one of the two written
\* Results as a whole, and an entry of another url that was in the store
\* before the calls is missing only if the store is at its cap of 100
\* entries (it was evicted to make room).
C32_SameUrlSavesCapped ==
    SameUrlTwice =>
        /\ StoredWhole
        /\ \A v \in hist.initial \ {hist.lastSave.url} :
              HasKey(summaries, v) \/ Len(summaries) = MaxSummaries

\* two saves of a new url onto a full store have completed: the url holds
\* the Result of the later one and the oldest entry has been evicted
C32_Witness ==
    /\ SameUrlTwice
    /\ hist.lastSave.url = MaxSummaries + 1
    /\ WrittenBy(Lookup(summaries, MaxSummaries + 1), hist.lastSave)
    /\ hist.lastSave.mode # hist.prevSave.mode
    /\ ~HasKey(summaries, 1)

\* C33 (as claimed): a saveSummary for a url that already has an entry
\* supersedes it.  After such a save alone, the store holds as many
\* entries as before, one of them for the url, with the new summary, mode
\* and timestamp.  The re-saved url counts as the most recent: when a save
\* of a new url follows it, the re-saved entry is missing only if every
\* entry written after its original save is missing too.
C33_ResaveSupersedes ==
    /\ (/\ \A s \in Slots : slot[s].op = "idle"
        /\ ~hist.overlapped
        /\ hist.lastSave.valid
        /\ hist.lastSave.url \in hist.initial
        /\ hist.count = Cardinality(hist.initial) + 1)
       => /\ Len(summaries) = Cardinality(hist.initial)
          /\ Cardinality({i \in 1..Len(summaries) :
                             summaries[i].url = hist.lastSave.url}) = 1
          /\ WrittenBy(Lookup(summaries, hist.lastSave.url), hist.lastSave)
    /\ (/\ \A s \in Slots : slot[s].op = "idle"
        /\ ~hist.overlapped
        /\ hist.prevSave.valid
        /\ hist.prevSave.url \in hist.initial
        /\ hist.lastSave.url \notin hist.initial
        /\ hist.count = Cardinality(hist.initial) + 2)
       => (~HasKey(summaries, hist.prevSave.url)
           => \A v \in hist.initial :
                 v > hist.prevSave.url => ~HasKey(summaries, v))

(***************************************************************************)
(* Claims about storage failures behind the Coordinator, checked under     *)
(* SpecCoord                                                               *)
(***************************************************************************)
\* C34: a request whose StorageManager call met a storage failure is still
\* answered once with success true: a SAVE_SUMMARY whose read or write of
\* the store rejected, and a GET_CONTEXT whose read rejected, the latter
\* with an empty context.
C34_FailureStillSuccess ==
    \A id \in 1..Len(reqlog) :
        (/\ reqlog[id].type \in {"SAVE_SUMMARY", "GET_CONTEXT"}
         /\ reqlog[id].failed
         /\ reqlog[id].answers # <<>>)
        => /\ Len(reqlog[id].answers) = 1
           /\ reqlog[id].answers[1].success
           /\ reqlog[id].type = "GET_CONTEXT"
              => reqlog[id].answers[1].context = <<>>

\* a SAVE_SUMMARY whose write was rejected and a GET_CONTEXT whose read was
\* rejected have both been answered
C34_Witness ==
    /\ \E id \in 1..Len(reqlog) :
        /\ reqlog[id].type = "SAVE_SUMMARY"
        /\ reqlog[id].failed
        /\ ~reqlog[id].wrote
        /\ reqlog[id].answers # <<>>
    /\ \E id \in 1..Len(reqlog) :
        /\ reqlog[id].type = "GET_CONTEXT"
        /\ reqlog[id].failed
        /\ reqlog[id].answers # <<>>

(***************************************************************************)
(* Claims about repeated init, the selection and the Sidebar's requests,   *)
(* checked under SpecPanel                                                 *)
(***************************************************************************)
\* C35: on a page where init has run more than once, one click on the
\* button or one TOGGLE_SIDEBAR message is one toggle: isSidebarOpen
\* flips, the page's one panel is shown exactly when the flag is set, and
\* the message is answered success true.
C35_ReinitTogglesOnce ==
    [][(agent.inits > 1 /\ agent'.toggles # agent.toggles)
       => /\ agent'.toggles = agent.toggles + 1
          /\ agent'.isSidebarOpen = ~agent.isSidebarOpen
          /\ agent'.shown = agent'.isSidebarOpen
          /\ agent'.panels = 1
          /\ agent'.msgs # agent.msgs
             => /\ agent'.msgs = agent.msgs + 1
                /\ agent'.acks = agent.acks + 1]_vars

\* a TOGGLE_SIDEBAR message reached a page with two instances of the
\* script and opened its one panel
C35_Witness ==
    /\ agent.msgAt > 1
    /\ agent.acks = agent.msgs
    /\ agent.isSidebarOpen
    /\ agent.shown
    /\ agent.panels = 1

\* C36 (as claimed): the text of the Sidebar's last SUMMARIZE request is
\* the page's selection at the time of that request, or the fallback
\* 'Full page content' when nothing was selected then.
C36_CurrentSelectionSent ==
    sidebar.sent > 0 =>
        sidebar.lastText = IF sidebar.lastSel # "" THEN sidebar.lastSel
                           ELSE "Full page content"

\* C38: a click on a summarize button of a Sidebar that holds no page
\* context posts nothing and leaves isLoading false; with a context the
\* click posts one SUMMARIZE whose text is the stored selection, or
\* 'Full page content' when the stored selection is empty, and in either
\* case not the empty string.
C38_NoContextNoRequest ==
    [][sidebar'.clicks # sidebar.clicks
       => IF sidebar.hasContext
          THEN /\ Len(toAgent') = Len(toAgent) + 1
               /\ LET m == toAgent'[Len(toAgent')] IN
                  /\ m.type = "SUMMARIZE"
                  /\ m.text # ""
                  /\ m.text = IF sidebar.selectedText = ""
                              THEN "Full page content"
                              ELSE sidebar.selectedText
          ELSE /\ toAgent' = toAgent
               /\ ~sidebar'.isLoading
               /\ sidebar'.sent = sidebar.sent]_vars

\* a summarize button was clicked in a mounted Sidebar whose PAGE_CONTEXT
\* was lost, and nothing was sent
C38_Witness ==
    /\ sidebar.mounted
    /\ ~sidebar.hasContext
    /\ sidebar.clicks > 0
    /\ sidebar.sent = 0
    /\ ~sidebar.isLoading
    /\ toAgent = <<>>

(***************************************************************************)
(* SpecPrefs: the settings operations of StorageManager and clearAll,      *)
(* called directly and possibly overlapping; each chrome.storage call may  *)
(* reject.                                                                 *)
(***************************************************************************)
InitPrefs ==
    /\ agent = AgentInit
    /\ summaries = <<>>
    /\ hist = HistOf(0)
    /\ settings \in {NoSettings, Stored(DefaultSettings)}
    /\ InitCommon

NextPrefs ==
    \E s \in Slots :
        \/ Begin(s, GetSettingsCall)
        \/ \E partial \in Partials : Begin(s, SetSettingsCall(partial))
        \/ Begin(s, ClearAllCall)
        \/ GetSettingsRead(s)
        \/ GetSettingsReadFail(s)
        \/ SetSettingsRead(s)
        \/ SetSettingsReadFail(s)
        \/ SetSettingsWrite(s)
        \/ SetSettingsWriteFail(s)
        \/ ClearLocal(s)
        \/ ClearLocalFail(s)
        \/ ClearSync(s)
        \/ ClearSyncFail(s)

SpecPrefs == InitPrefs /\ [][NextPrefs]_vars

(***************************************************************************)
(* Claims about setSettings, checked under SpecPrefs                       *)
(***************************************************************************)
\* C37: a setSettings(partial) that ran without a storage failure and
\* whose write found the store as its read had left it (a sequential call)
\* changes only the fields the partial carries: each of them takes the
\* supplied value, every other field keeps the value stored before.
C37_OnlyGivenFields ==
    [][\A s \in Slots :
        (/\ slot[s].op = "setSettings" /\ slot[s].pc = "set"
         /\ slot'[s].op = "idle"
         /\ done'.op = "setSettings" /\ ~done'.failed
         /\ settings.val = slot[s].seenP)
        => /\ settings'.present
           /\ \A f \in Fields :
                settings'.val[f] = IF slot[s].partial[f] # Unset
                                   THEN slot[s].partial[f]
                                   ELSE settings.val[f]]_vars

\* a setSettings({ theme: 'dark' }) on the stored defaults has returned:
\* the theme is dark and the other three fields are the defaults
C37_Witness ==
    /\ done.op = "setSettings"
    /\ ~done.failed
    /\ done.partial = [EmptyObj EXCEPT !["theme"] = "dark"]
    /\ settings = Stored([DefaultSettings EXCEPT !["theme"] = "dark"])

====
